---- MODULE Spec2Model ----
(***************************************************************************)
(* The flat-expression evaluator of eval/eval/evaluator_core.cc            *)
(* (src/unnamed/part_002, lines 685-886) and the value conversion of       *)
(* eval/internal/interop.cc (same file, lines 1-539) that it returns       *)
(* through.                                                                *)
(*                                                                         *)
(* Spec      : CelExpressionFlatImpl::Trace / Evaluate, one loop iteration *)
(*             per action, run repeatedly on the same evaluation state.    *)
(* SpecFrame : the iteration-frame methods of ExecutionFrame, called in    *)
(*             any order, as the steps of a comprehension call them.       *)
(* SpecPar   : two threads calling Trace on the same execution path.       *)
(* SpecMap   : the map builders of common/map_type_reflector.cc and the    *)
(*             maps they build: Put, Build, Find, Has, the key functors.   *)
(* SpecEq    : MapValueEqual (common/values/map_value.cc) and              *)
(*             StructValueEqual (common/values/struct_value.cc).           *)
(* SpecEqNested : the same, on values whose comparison is not a Bool.      *)
(* SpecNew   : TypeReflector::NewMapValueBuilder.                          *)
(* SpecIter  : TypedMapValue::ForEach and TypedMapValueKeyIterator.        *)
(* SpecValue : the builders of the well-known types of                     *)
(*             common/value_provider.cc.                                   *)
(* SpecRewrite : AstRewrite, one loop iteration per action.                *)
(***************************************************************************)
EXTENDS Integers, Sequences, FiniteSets, TLC

VARIABLES
    path_,              \* CelExpressionFlatImpl::path_ / ExecutionFrame::execution_path_
    activation,         \* the value the activation binds to the variable "x"
    callback,           \* the CelEvaluationListener handed to Trace
    pc_,                \* ExecutionFrame::pc_
    value_stack_,       \* CelExpressionFlatEvaluationState::value_stack_
    iter_stack_,        \* CelExpressionFlatEvaluationState::iter_stack_
    initial_stack_size, \* local of Trace
    phase,              \* where the caller of Trace is
    result,             \* the absl::StatusOr<CelValue> that Trace returned
    calls,              \* the listener invocations of the current evaluation
    final_stack_size,   \* local of Trace
    executed,           \* the steps the current evaluation executed, in order
    exit,               \* the statement through which Trace was left
    runs,               \* evaluations started on this state object
    fresh_result,       \* what the first evaluation (fresh state) returned
    stale,              \* what the state object held when Trace was entered
    ret,                \* what the last ExecutionFrame method call returned
    pushes,             \* PushIterFrame calls made
    pops,               \* PopIterFrame calls that returned OK
    thread_call,        \* per thread: the Trace call it makes and what it got
    thread_frame,       \* per ExecutionFrame object: pc_
    thread_state,       \* per CelExpressionFlatEvaluationState object: its stacks
    ndebug,             \* whether the build defines NDEBUG (ABSL_DLOG compiled out)
    builder,            \* a MapValueBuilderImpl<K, V>: K, V, entries_
    map_value,          \* the TypedMapValue<K, V> that Build() made
    last,               \* the last call on the builder or the map, and its return
    put_log,            \* the (key, value) pairs of the Put calls that returned OK
    objects,            \* the two maps, or the two structs, that get compared
    key_iterator,       \* a TypedMapValueKeyIterator<K, V>: begin_, end_
    yielded,            \* the keys that its Next calls yielded, in order
    ast,                \* the Expr tree handed to AstRewrite: per node, kind and children
    opts,               \* RewriteTraversalOptions
    records,            \* AstRewrite's std::stack<StackRecord>, top last
    traversal_path,     \* AstRewrite's traversal_path
    handler_calls,      \* the calls made on the AstRewriter, in order
    rewrite             \* where AstRewrite is, its local `rewritten`, rewrites made

\* The variables of one evaluation on one thread.
traceVars == <<path_, activation, callback, pc_, value_stack_, iter_stack_,
               initial_stack_size, final_stack_size, phase, result, calls,
               executed, exit, runs,
               fresh_result, stale, ret, pushes, pops>>

\* The variables of the evaluations that run concurrently.
parVars == <<thread_call, thread_frame, thread_state>>

\* The variables of a map under construction and in use.
mapVars == <<ndebug, builder, map_value, last, put_log>>

\* The variables of an iteration over the keys of a map.
iterVars == <<key_iterator, yielded>>

\* The variables of a traversal of an AST.
rewriteVars == <<ast, opts, records, traversal_path, handler_calls, rewrite>>

\* The variables the single-threaded specifications leave alone.
otherVars == <<parVars, mapVars, objects, iterVars, rewriteVars>>

\* The variables that concurrent evaluations leave alone.
notParVars == <<traceVars, mapVars, objects, iterVars, rewriteVars>>

\* The variables that the calls on a map leave alone.
notMapVars == <<traceVars, parVars, objects, iterVars, rewriteVars>>

vars == <<traceVars, otherVars>>

\* No evaluation runs concurrently, and nothing else is being done.
ParIdle ==
    /\ thread_call = <<>>
    /\ thread_frame = <<>>
    /\ thread_state = <<>>

\* No map is under construction, and nothing is being compared.
MapIdle ==
    /\ objects = <<>>
    /\ ndebug = FALSE
    /\ builder = <<>>
    /\ map_value = <<>>
    /\ last = <<>>
    /\ put_log = <<>>

\* No map is being iterated, and no AST is being traversed.
IterIdle ==
    /\ key_iterator = <<>>
    /\ yielded = <<>>
    /\ ast = <<>>
    /\ opts = <<>>
    /\ records = <<>>
    /\ traversal_path = <<>>
    /\ handler_calls = <<>>
    /\ rewrite = <<>>

OthersIdle == ParIdle /\ MapIdle /\ IterIdle

(***************************************************************************)
(* Bounds of the model.                                                    *)
(***************************************************************************)
MaxPathLen == 3     \* longest execution path
MaxSteps == 5       \* steps one evaluation may execute (backward jumps loop)
MaxRuns == 2        \* evaluations made with one state object
MaxPushes == 2      \* PushIterFrame calls in SpecFrame

None == [kind |-> "none"]

(***************************************************************************)
(* Values: cel::Handle<cel::Value>.  An empty handle is None.              *)
(***************************************************************************)
Val(k, rep, v) == [kind |-> k, rep |-> rep, v |-> v]

IntValue(n) == Val("Int", "inline", n)
BoolValue(b) == Val("Bool", "inline", IF b THEN 1 ELSE 0)
ErrorValue(s) == Val("Error", "inline", s)
EnumValue(n) == Val("Enum", "inline", n)

\* absl::Status: OK or a code with a message.
OkStatus == [code |-> "ok", msg |-> ""]
InternalError(m) == [code |-> "internal", msg |-> m]
UnimplementedError(m) == [code |-> "unimplemented", msg |-> m]
ListenerError == [code |-> "cancelled", msg |-> "listener"]

\* absl::StatusOr<CelValue>
StatusOrValue(v) == [ok |-> TRUE, value |-> v]
StatusOrError(s) == [ok |-> FALSE, status |-> s]

\* CelValue::Create... : a legacy value is a type tag and a payload.
CelValue(t, v) == [type |-> t, v |-> v]

\* LegacyCelList / LegacyCelMap: the arena wrapper around a modern handle.
LegacyWrapper(v) == [wraps |-> v]

\* interop_internal::ToLegacyValue
ToLegacyValue(value) ==
    CASE value.kind = "NullType" -> StatusOrValue(CelValue("kNullType", 0))
      [] value.kind = "Error" -> StatusOrValue(CelValue("kError", value.v))
      [] value.kind = "Type" -> StatusOrValue(CelValue("kCelType", value.v))
      [] value.kind = "Bool" -> StatusOrValue(CelValue("kBool", value.v))
      [] value.kind = "Int" -> StatusOrValue(CelValue("kInt64", value.v))
      [] value.kind = "Uint" -> StatusOrValue(CelValue("kUint64", value.v))
      [] value.kind = "Double" -> StatusOrValue(CelValue("kDouble", value.v))
      [] value.kind = "String" -> StatusOrValue(CelValue("kString", value.v))
      [] value.kind = "Bytes" -> StatusOrValue(CelValue("kBytes", value.v))
      [] value.kind = "Duration" -> StatusOrValue(CelValue("kDuration", value.v))
      [] value.kind = "Timestamp" -> StatusOrValue(CelValue("kTimestamp", value.v))
      [] value.kind = "List" ->
            IF value.rep = "legacy"
            THEN StatusOrValue(CelValue("kList", value.v))
            ELSE StatusOrValue(CelValue("kList", LegacyWrapper(value.v)))
      [] value.kind = "Map" ->
            IF value.rep = "legacy"
            THEN StatusOrValue(CelValue("kMap", value.v))
            ELSE StatusOrValue(CelValue("kMap", LegacyWrapper(value.v)))
      [] value.kind = "Struct" ->
            IF value.rep # "legacy"
            THEN StatusOrError(UnimplementedError(
                     "only legacy struct types and values can be used for interop"))
            ELSE StatusOrValue(CelValue("kMessage", value.v))
      [] value.kind = "Unknown" -> StatusOrValue(CelValue("kUnknownSet", value.v))
      [] OTHER -> StatusOrError(UnimplementedError(
                     "conversion from cel::Value to CelValue is not yet implemented"))


(***************************************************************************)
(* The iteration stack: CelExpressionFlatEvaluationState::IterFrame and    *)
(* the ExecutionFrame methods that work on it.  Each method is an operator *)
(* from the iteration stack to the status it returns and the stack it      *)
(* leaves.                                                                 *)
(***************************************************************************)
EmptyTrail == ""

IterVar(name, value, trail) == [name |-> name, value |-> value, attr_trail |-> trail]

IterFrame(iter_var_name, accu_var_name) ==
    [iter_var |-> IterVar(iter_var_name, None, EmptyTrail),
     accu_var |-> IterVar(accu_var_name, None, EmptyTrail)]

InvalidIterationStateError ==
    InternalError("Attempted to access iteration variable outside of comprehension.")

FrameResult(status, stack) == [status |-> status, iter_stack |-> stack]

\* ExecutionFrame::PushIterFrame
PushIterFrame(stack, iter_var_name, accu_var_name) ==
    FrameResult(OkStatus, Append(stack, IterFrame(iter_var_name, accu_var_name)))

\* PopIterFrame removing the outermost frame.
PopIterFrame_Outermost(stack) ==
    IF stack = <<>>
    THEN FrameResult(InternalError("Loop stack underflow."), stack)
    ELSE FrameResult(OkStatus, SubSeq(stack, 2, Len(stack)))

\* ExecutionFrame::PopIterFrame
PopIterFrame(stack) ==
    IF stack = <<>>
    THEN FrameResult(InternalError("Loop stack underflow."), stack)
    ELSE FrameResult(OkStatus, SubSeq(stack, 1, Len(stack) - 1))

\* SetAccuVar writing the iteration variable.
SetAccuVar_WritesIterVar(stack, value, trail) ==
    IF stack = <<>>
    THEN FrameResult(InvalidIterationStateError, stack)
    ELSE FrameResult(OkStatus,
             [stack EXCEPT ![Len(stack)].iter_var.value = value,
                           ![Len(stack)].iter_var.attr_trail = trail])

\* ExecutionFrame::SetAccuVar(value, trail)
SetAccuVar(stack, value, trail) ==
    IF stack = <<>>
    THEN FrameResult(InvalidIterationStateError, stack)
    ELSE FrameResult(OkStatus,
             [stack EXCEPT ![Len(stack)].accu_var.value = value,
                           ![Len(stack)].accu_var.attr_trail = trail])

\* ExecutionFrame::SetIterVar(value, trail)
SetIterVar(stack, value, trail) ==
    IF stack = <<>>
    THEN FrameResult(InvalidIterationStateError, stack)
    ELSE FrameResult(OkStatus,
             [stack EXCEPT ![Len(stack)].iter_var.value = value,
                           ![Len(stack)].iter_var.attr_trail = trail])

\* ExecutionFrame::ClearIterVar
ClearIterVar(stack) ==
    IF stack = <<>>
    THEN FrameResult(InvalidIterationStateError, stack)
    ELSE FrameResult(OkStatus, [stack EXCEPT ![Len(stack)].iter_var.value = None])

Found(value, trail) == [found |-> TRUE, value |-> value, trail |-> trail]
NotFound == [found |-> FALSE, value |-> None, trail |-> EmptyTrail]

\* ExecutionFrame::GetIterVar: the loop from rbegin() to rend(); i is the
\* frame the reverse iterator points at, 0 is rend().
RECURSIVE GetIterVarFrom(_, _, _)
GetIterVarFrom(stack, name, i) ==
    IF i = 0 THEN NotFound
    ELSE LET frame == stack[i] IN
         IF frame.iter_var.value # None /\ name = frame.iter_var.name
         THEN Found(frame.iter_var.value, frame.iter_var.attr_trail)
         ELSE IF frame.accu_var.value # None /\ name = frame.accu_var.name
         THEN Found(frame.accu_var.value, frame.accu_var.attr_trail)
         ELSE GetIterVarFrom(stack, name, i - 1)

\* GetIterVar iterating from begin() to end(): outermost frame first.
RECURSIVE GetIterVarForward(_, _, _)
GetIterVarForward(stack, name, i) ==
    IF i > Len(stack) THEN NotFound
    ELSE LET frame == stack[i] IN
         IF frame.iter_var.value # None /\ name = frame.iter_var.name
         THEN Found(frame.iter_var.value, frame.iter_var.attr_trail)
         ELSE IF frame.accu_var.value # None /\ name = frame.accu_var.name
         THEN Found(frame.accu_var.value, frame.accu_var.attr_trail)
         ELSE GetIterVarForward(stack, name, i + 1)

GetIterVar_OutermostFirst(stack, name) == GetIterVarForward(stack, name, 1)

GetIterVar(stack, name) == GetIterVarFrom(stack, name, Len(stack))

(***************************************************************************)
(* The operand stack (EvaluatorStack) and the steps of an execution path.  *)
(* A step's Evaluate works on the frame: program counter, operand stack,   *)
(* iteration stack.                                                        *)
(***************************************************************************)
Peek(stack) == stack[Len(stack)]
Pop(stack, n) == SubSeq(stack, 1, Len(stack) - n)
HasEnough(stack, n) == Len(stack) >= n

Frame(pc, stack, iters) == [pc |-> pc, value_stack |-> stack, iter_stack |-> iters]
StepResult(status, frame) == [status |-> status, frame |-> frame]

\* ExecutionFrame::JumpTo
JumpTo(frame, offset, end_pos) ==
    LET new_pc == frame.pc + offset IN
    IF new_pc < 0 \/ new_pc > end_pos
    THEN StepResult(InternalError("Jump address out of range"), frame)
    ELSE StepResult(OkStatus, [frame EXCEPT !.pc = new_pc])

\* The shapes of step an execution path is made of.
Step(op, offset, id, from_ast) ==
    [op |-> op, offset |-> offset, id |-> id, from_ast |-> from_ast]

StepShapes ==
    {Step(op, 0, 0, a) : op \in {"Ident", "Call", "PushIter"}, a \in BOOLEAN}
        \cup {Step("Jump", off, 0, FALSE) : off \in {-2, 2}}
        \cup {Step("SetIter", 0, 0, FALSE)}

\* A step made from AST node i carries i as its id, any other step -1.
WithId(shape, i) == [shape EXCEPT !.id = IF shape.from_ast THEN i ELSE -1]

ComesFromAst(expr) == expr.from_ast

\* The result of a two-argument function: an error argument is passed on.
CallResult(lhs, rhs) ==
    IF lhs.kind = "Error" THEN lhs
    ELSE IF rhs.kind = "Error" THEN rhs
    ELSE BoolValue(TRUE)

\* ExpressionStep::Evaluate
Evaluate(expr, frame, end_pos, act) ==
    CASE expr.op = "Ident" ->
            LET var == GetIterVar(frame.iter_stack, "x")
                value == IF var.found THEN var.value ELSE act
            IN  StepResult(OkStatus,
                    [frame EXCEPT !.value_stack = Append(@, value)])
      [] expr.op = "Call" ->
            IF ~HasEnough(frame.value_stack, 2)
            THEN StepResult(InternalError("Value stack underflow"), frame)
            ELSE LET args == frame.value_stack
                     n == Len(args)
                 IN  StepResult(OkStatus,
                         [frame EXCEPT !.value_stack =
                             Append(Pop(args, 2), CallResult(args[n - 1], args[n]))])
      [] expr.op = "Jump" -> JumpTo(frame, expr.offset, end_pos)
      [] expr.op = "PushIter" ->
            LET r == PushIterFrame(frame.iter_stack, "x", "a")
            IN  StepResult(r.status, [frame EXCEPT !.iter_stack = r.iter_stack])
      [] expr.op = "SetIter" ->
            LET r == SetIterVar(frame.iter_stack, IntValue(2), EmptyTrail)
            IN  StepResult(r.status, [frame EXCEPT !.iter_stack = r.iter_stack])


(***************************************************************************)
(* CelExpressionFlatImpl::Trace.                                           *)
(***************************************************************************)
\* The values an activation may bind to "x".
ActivationValues == {IntValue(1), ErrorValue(1), EnumValue(1)}

\* The listener: absent (Evaluate), or present and returning a non-OK status
\* from its fail_at-th invocation (never, when fail_at = 0).
Listeners == {[present |-> FALSE, fail_at |-> 0]}
                 \cup {[present |-> TRUE, fail_at |-> n] : n \in 0..2}

ListenerStatus(cb, n) == IF cb.fail_at = n THEN ListenerError ELSE OkStatus

\* Reset without value_stack_.Clear().
Reset_KeepsValues(state) == [state EXCEPT !.iter_stack = <<>>]

\* CelExpressionFlatEvaluationState::Reset
Reset(state) == [state EXCEPT !.iter_stack = <<>>, !.value_stack = <<>>]

\* ExecutionFrame::Next: the step to run, or "nullptr".
AtEnd(pc, end_pos) == ~(pc < end_pos)

\* Trace without the check of the step's status.
StepFailed_Never(status) == FALSE

\* Trace, line 849: the step's status ends the evaluation.
StepFailed(status) == status # OkStatus

\* Trace without the ComesFromAst check.
ListenerSkipped_NoAstCheck(cb, expr, stack) ==
    \/ ~cb.present
    \/ stack = <<>>

\* Trace, lines 852-864: the iterations that do not reach the listener.
ListenerSkipped(cb, expr, stack) ==
    \/ ~cb.present
    \/ ~ComesFromAst(expr)
    \/ stack = <<>>

\* Trace without the check of the listener's status.
ListenerFailed_Never(status2) == FALSE

\* Trace, line 870: the listener's status ends the evaluation.
ListenerFailed(status2) == status2 # OkStatus

\* Trace checking only that the stack is not empty.
StackError_OnlyEmpty(initial, final) == final = 0

\* Trace, line 876
StackError(initial, final) == initial + 1 # final \/ final = 0

\* One entry of the log of executed steps: the step's index in the path, the
\* status its Evaluate returned and the operand stack's top and depth after it.
Executed(index, status, stack) ==
    [index |-> index, status |-> status, depth |-> Len(stack),
     top |-> IF stack = <<>> THEN None ELSE Peek(stack)]

\* One listener invocation: its arguments, the status it returned, and the
\* number of the executed step it followed.
Call(id, value, status, at) == [id |-> id, value |-> value, status |-> status, at |-> at]

\* Trace, lines 838-845: Reset, the frame, initial_stack_size.
TraceBegin ==
    /\ phase \in {"idle", "returned"}
    /\ runs < MaxRuns
    /\ LET state == Reset([value_stack |-> value_stack_, iter_stack |-> iter_stack_])
       IN  /\ value_stack_' = state.value_stack
           /\ iter_stack_' = state.iter_stack
           /\ initial_stack_size' = Len(state.value_stack)
    /\ pc_' = 0
    /\ final_stack_size' = 0
    /\ phase' = "running"
    /\ result' = None
    /\ calls' = <<>>
    /\ executed' = <<>>
    /\ exit' = "none"
    /\ runs' = runs + 1
    /\ stale' = [values |-> Len(value_stack_), frames |-> Len(iter_stack_)]
    /\ UNCHANGED <<path_, activation, callback, fresh_result, ret, pushes, pops>>
    /\ UNCHANGED otherVars

\* Trace leaves through a return statement.
Return(how, r) ==
    /\ phase' = "returned"
    /\ exit' = how
    /\ result' = r
    /\ fresh_result' = IF runs = 1 THEN r ELSE fresh_result

\* ModernValueToLegacyValueOrDie failed its CHECK_OK: the process is gone.
Die ==
    /\ phase' = "aborted"
    /\ exit' = "abort"
    /\ UNCHANGED <<result, fresh_result>>

Continue == UNCHANGED <<phase, exit, result, fresh_result>>

\* Trace, lines 847-873: one iteration of the loop.
TraceStep ==
    /\ phase = "running"
    /\ ~AtEnd(pc_, Len(path_))
    /\ Len(executed) < MaxSteps
    /\ LET expr == path_[pc_ + 1]
           r == Evaluate(expr, Frame(pc_ + 1, value_stack_, iter_stack_),
                         Len(path_), activation)
           stack == r.frame.value_stack
           at == Len(executed) + 1
       IN  /\ pc_' = r.frame.pc
           /\ value_stack_' = stack
           /\ iter_stack_' = r.frame.iter_stack
           /\ executed' = Append(executed, Executed(pc_ + 1, r.status, stack))
           /\ IF StepFailed(r.status)
              THEN Return("step", StatusOrError(r.status)) /\ calls' = calls
              ELSE IF ListenerSkipped(callback, expr, stack)
              THEN Continue /\ calls' = calls
              ELSE LET legacy == ToLegacyValue(Peek(stack)) IN
                   IF ~legacy.ok
                   THEN Die /\ calls' = calls
                   ELSE LET status2 == ListenerStatus(callback, Len(calls) + 1) IN
                        /\ calls' = Append(calls, Call(expr.id, legacy.value, status2, at))
                        /\ IF ListenerFailed(status2)
                           THEN Return("listener", StatusOrError(status2))
                           ELSE Continue
    /\ UNCHANGED <<path_, activation, callback, initial_stack_size,
                   final_stack_size, runs, stale, ret, pushes, pops>>
    /\ UNCHANGED otherVars

\* Trace, lines 875-883: Next returned nullptr.
TraceEnd ==
    /\ phase = "running"
    /\ AtEnd(pc_, Len(path_))
    /\ final_stack_size' = Len(value_stack_)
    /\ IF StackError(initial_stack_size, Len(value_stack_))
       THEN /\ Return("stack", StatusOrError(InternalError("Stack error during evaluation")))
            /\ value_stack_' = value_stack_
       ELSE LET value == Peek(value_stack_)
                legacy == ToLegacyValue(value)
            IN  /\ value_stack_' = Pop(value_stack_, 1)
                /\ IF legacy.ok THEN Return("value", StatusOrValue(legacy.value)) ELSE Die
    /\ UNCHANGED <<path_, activation, callback, pc_, iter_stack_,
                   initial_stack_size, calls, executed, runs, stale, ret,
                   pushes, pops>>
    /\ UNCHANGED otherVars

\* The state a CelExpressionFlatImpl and a state object made by
\* InitializeState are in, with the inputs of the evaluations to come.
Init ==
    /\ \E n \in 0..MaxPathLen : \E shapes \in [1..n -> StepShapes] :
           path_ = [i \in 1..n |-> WithId(shapes[i], i)]
    /\ activation \in ActivationValues
    /\ callback \in Listeners
    /\ pc_ = 0
    /\ value_stack_ = <<>>
    /\ iter_stack_ = <<>>
    /\ initial_stack_size = 0
    /\ final_stack_size = 0
    /\ phase = "idle"
    /\ result = None
    /\ calls = <<>>
    /\ executed = <<>>
    /\ exit = "none"
    /\ runs = 0
    /\ fresh_result = None
    /\ stale = [values |-> 0, frames |-> 0]
    /\ ret = [op |-> "none"]
    /\ pushes = 0
    /\ pops = 0
    /\ OthersIdle

Next == TraceBegin \/ TraceStep \/ TraceEnd

Spec == Init /\ [][Next]_vars


(***************************************************************************)
(* The iteration-frame methods of ExecutionFrame, called as the steps of a *)
(* comprehension call them, in any order.  ret records the last call: the  *)
(* method, its arguments and what it returned.                             *)
(***************************************************************************)
\* The (iteration variable, accumulator variable) names of a comprehension.
FrameNames == {<<"x", "a">>, <<"x", "x">>}

\* The (value, attribute trail) pairs handed to SetIterVar and SetAccuVar.
FrameValues == {<<IntValue(1), EmptyTrail>>, <<IntValue(2), "t">>}

\* The names looked up.
LookupNames == {"x", "a", "z"}

FrameCall(op, r) ==
    /\ iter_stack_' = r.iter_stack
    /\ ret' = [op |-> op, status |-> r.status]
    /\ UNCHANGED <<path_, activation, callback, pc_, value_stack_,
                   initial_stack_size, final_stack_size, phase, result, calls,
                   executed, exit, runs, fresh_result, stale>>
    /\ UNCHANGED otherVars

CallPushIterFrame ==
    /\ phase = "frame"
    /\ pushes < MaxPushes
    /\ \E names \in FrameNames :
           FrameCall("PushIterFrame", PushIterFrame(iter_stack_, names[1], names[2]))
    /\ pushes' = pushes + 1
    /\ pops' = pops

CallPopIterFrame ==
    /\ phase = "frame"
    /\ LET r == PopIterFrame(iter_stack_) IN
           /\ FrameCall("PopIterFrame", r)
           /\ pops' = IF r.status = OkStatus THEN pops + 1 ELSE pops
    /\ pushes' = pushes

CallSetAccuVar ==
    /\ phase = "frame"
    /\ \E arg \in FrameValues :
           /\ iter_stack_' = SetAccuVar(iter_stack_, arg[1], arg[2]).iter_stack
           /\ ret' = [op |-> "SetAccuVar", value |-> arg[1], trail |-> arg[2],
                      status |-> SetAccuVar(iter_stack_, arg[1], arg[2]).status]
    /\ UNCHANGED <<path_, activation, callback, pc_, value_stack_,
                   initial_stack_size, final_stack_size, phase, result, calls,
                   executed, exit, runs, fresh_result, stale, pushes, pops>>
    /\ UNCHANGED otherVars

CallSetIterVar ==
    /\ phase = "frame"
    /\ \E arg \in FrameValues :
           /\ iter_stack_' = SetIterVar(iter_stack_, arg[1], arg[2]).iter_stack
           /\ ret' = [op |-> "SetIterVar", value |-> arg[1], trail |-> arg[2],
                      status |-> SetIterVar(iter_stack_, arg[1], arg[2]).status]
    /\ UNCHANGED <<path_, activation, callback, pc_, value_stack_,
                   initial_stack_size, final_stack_size, phase, result, calls,
                   executed, exit, runs, fresh_result, stale, pushes, pops>>
    /\ UNCHANGED otherVars

CallClearIterVar ==
    /\ phase = "frame"
    /\ FrameCall("ClearIterVar", ClearIterVar(iter_stack_))
    /\ UNCHANGED <<pushes, pops>>

CallGetIterVar ==
    /\ phase = "frame"
    /\ \E name \in LookupNames :
           ret' = [op |-> "GetIterVar", name |-> name,
                   got |-> GetIterVar(iter_stack_, name)]
    /\ UNCHANGED <<path_, activation, callback, pc_, value_stack_, iter_stack_,
                   initial_stack_size, final_stack_size, phase, result, calls,
                   executed, exit, runs, fresh_result, stale, pushes, pops>>
    /\ UNCHANGED otherVars

\* A frame in the middle of an evaluation, before its first comprehension.
InitFrame ==
    /\ path_ = <<>>
    /\ activation = IntValue(1)
    /\ callback = [present |-> FALSE, fail_at |-> 0]
    /\ pc_ = 0
    /\ value_stack_ \in {<<>>, <<IntValue(1)>>}
    /\ iter_stack_ = <<>>
    /\ initial_stack_size = 0
    /\ final_stack_size = 0
    /\ phase = "frame"
    /\ result = None
    /\ calls = <<>>
    /\ executed = <<>>
    /\ exit = "none"
    /\ runs = 0
    /\ fresh_result = None
    /\ stale = [values |-> 0, frames |-> 0]
    /\ ret = [op |-> "none"]
    /\ pushes = 0
    /\ pops = 0
    /\ OthersIdle

NextFrame ==
    \/ CallPushIterFrame
    \/ CallPopIterFrame
    \/ CallSetAccuVar
    \/ CallSetIterVar
    \/ CallClearIterVar
    \/ CallGetIterVar

SpecFrame == InitFrame /\ [][NextFrame]_vars


(***************************************************************************)
(* Two threads evaluate the same CelExpressionFlatImpl at the same time.   *)
(* Each calls Trace with its own activation, listener and state object;    *)
(* the execution path is the one both read.                                *)
(***************************************************************************)
MaxParPathLen == 2  \* longest execution path that two threads evaluate

Threads == {1, 2}

\* The listeners of the concurrent evaluations: none, or one whose first
\* invocation returns a non-OK status.
ParListeners == {cb \in Listeners : cb.present = (cb.fail_at = 1)}

\* The steps of the plans they evaluate.
ParStepShapes ==
    {shape \in StepShapes :
        shape.from_ast = (shape.op \in {"Ident", "Call"})}

\* Trace, line 841: `ExecutionFrame frame(...)` is a local of the call, so
\* the frame thread t works on is its own.
FrameOf_Shared(t) == 1

FrameOf(t) == t

\* What one call of Trace works on and has come to.
TraceRun(pc, state, initial, at, r, nexec, ncalls) ==
    [pc |-> pc, value_stack |-> state.value_stack, iter_stack |-> state.iter_stack,
     initial_stack_size |-> initial, phase |-> at, result |-> r,
     executed |-> nexec, calls |-> ncalls]

\* Trace, lines 847-883: one iteration of the loop, or what follows the loop
\* when Next returns nullptr.
TraceIteration(path, act, cb, run) ==
    IF AtEnd(run.pc, Len(path))
    THEN IF StackError(run.initial_stack_size, Len(run.value_stack))
         THEN [run EXCEPT !.phase = "returned",
                          !.result = StatusOrError(InternalError("Stack error during evaluation"))]
         ELSE LET legacy == ToLegacyValue(Peek(run.value_stack))
                  popped == [run EXCEPT !.value_stack = Pop(@, 1)]
              IN  IF legacy.ok
                  THEN [popped EXCEPT !.phase = "returned",
                                      !.result = StatusOrValue(legacy.value)]
                  ELSE [popped EXCEPT !.phase = "aborted"]
    ELSE LET expr == path[run.pc + 1]
             r == Evaluate(expr, Frame(run.pc + 1, run.value_stack, run.iter_stack),
                           Len(path), act)
             next == [run EXCEPT !.pc = r.frame.pc,
                                 !.value_stack = r.frame.value_stack,
                                 !.iter_stack = r.frame.iter_stack,
                                 !.executed = @ + 1]
         IN  IF StepFailed(r.status)
             THEN [next EXCEPT !.phase = "returned", !.result = StatusOrError(r.status)]
             ELSE IF ListenerSkipped(cb, expr, next.value_stack)
             THEN next
             ELSE LET legacy == ToLegacyValue(Peek(next.value_stack)) IN
                  IF ~legacy.ok
                  THEN [next EXCEPT !.phase = "aborted"]
                  ELSE LET status2 == ListenerStatus(cb, next.calls + 1)
                           called == [next EXCEPT !.calls = @ + 1]
                       IN  IF ListenerFailed(status2)
                           THEN [called EXCEPT !.phase = "returned",
                                               !.result = StatusOrError(status2)]
                           ELSE called

\* Trace, lines 838-845, on a state object made by InitializeState.
TraceEntry ==
    TraceRun(0, Reset([value_stack |-> <<>>, iter_stack |-> <<>>]), 0, "running", None, 0, 0)

\* The call Trace(activation, state, callback) made with nothing else running.
RECURSIVE TraceFrom(_, _, _, _)
TraceFrom(path, act, cb, run) ==
    IF run.phase # "running" THEN run
    ELSE IF ~AtEnd(run.pc, Len(path)) /\ run.executed >= MaxSteps THEN run
    ELSE TraceFrom(path, act, cb, TraceIteration(path, act, cb, run))

TraceAlone(path, act, cb) == TraceFrom(path, act, cb, TraceEntry)

\* The run of thread t, read from the objects it works on.
RunOf(t) ==
    TraceRun(thread_frame[FrameOf(t)].pc, thread_state[t],
             thread_call[t].initial_stack_size, thread_call[t].phase,
             thread_call[t].result, thread_call[t].executed, thread_call[t].calls)

\* Another thread is inside Trace while thread t is.
Overlaps(t) == \E u \in Threads \ {t} : thread_call[u].phase = "running"

\* Thread t's run is written back to the objects it works on.
Store(t, run) ==
    /\ thread_frame' = [thread_frame EXCEPT ![FrameOf(t)] = [pc |-> run.pc]]
    /\ thread_state' = [thread_state EXCEPT ![t] =
           [value_stack |-> run.value_stack, iter_stack |-> run.iter_stack]]
    /\ thread_call' = [thread_call EXCEPT ![t].initial_stack_size = run.initial_stack_size,
                                          ![t].phase = run.phase,
                                          ![t].result = run.result,
                                          ![t].executed = run.executed,
                                          ![t].calls = run.calls,
                                          ![t].overlapped = @ \/ Overlaps(t)]

\* A failed CHECK_OK ends the process, and every thread with it.
ProcessAlive == \A t \in Threads : thread_call[t].phase # "aborted"

\* Trace, lines 838-845, on thread t.
ParTraceBegin ==
    /\ ProcessAlive
    /\ \E t \in Threads :
           /\ thread_call[t].phase = "idle"
           /\ Store(t, TraceRun(0, Reset(thread_state[t]),
                                Len(Reset(thread_state[t]).value_stack),
                                "running", None, 0, 0))
    /\ UNCHANGED notParVars

\* Trace, lines 847-873, on thread t: one iteration of the loop.
ParTraceStep ==
    /\ ProcessAlive
    /\ \E t \in Threads :
           /\ thread_call[t].phase = "running"
           /\ ~AtEnd(RunOf(t).pc, Len(path_))
           /\ thread_call[t].executed < MaxSteps
           /\ Store(t, TraceIteration(path_, thread_call[t].activation,
                                      thread_call[t].callback, RunOf(t)))
    /\ UNCHANGED notParVars

\* Trace, lines 875-883, on thread t.
ParTraceEnd ==
    /\ ProcessAlive
    /\ \E t \in Threads :
           /\ thread_call[t].phase = "running"
           /\ AtEnd(RunOf(t).pc, Len(path_))
           /\ Store(t, TraceIteration(path_, thread_call[t].activation,
                                      thread_call[t].callback, RunOf(t)))
    /\ UNCHANGED notParVars

\* A plan and two threads about to evaluate it, each with a state object
\* made by InitializeState.
InitPar ==
    /\ \E n \in 0..MaxParPathLen : \E shapes \in [1..n -> ParStepShapes] :
           path_ = [i \in 1..n |-> WithId(shapes[i], i)]
    /\ activation = IntValue(1)
    /\ callback = [present |-> FALSE, fail_at |-> 0]
    /\ pc_ = 0
    /\ value_stack_ = <<>>
    /\ iter_stack_ = <<>>
    /\ initial_stack_size = 0
    /\ final_stack_size = 0
    /\ phase = "threads"
    /\ result = None
    /\ calls = <<>>
    /\ executed = <<>>
    /\ exit = "none"
    /\ runs = 0
    /\ fresh_result = None
    /\ stale = [values |-> 0, frames |-> 0]
    /\ ret = [op |-> "none"]
    /\ pushes = 0
    /\ pops = 0
    /\ \E acts \in [Threads -> ActivationValues] : \E cbs \in [Threads -> ParListeners] :
           thread_call = [t \in Threads |->
               [activation |-> acts[t], callback |-> cbs[t], phase |-> "idle",
                result |-> None, initial_stack_size |-> 0, executed |-> 0,
                calls |-> 0, overlapped |-> FALSE]]
    /\ thread_frame = [t \in Threads |-> [pc |-> 0]]
    /\ thread_state = [t \in Threads |-> [value_stack |-> <<>>, iter_stack |-> <<>>]]
    /\ MapIdle
    /\ IterIdle

NextPar == ParTraceBegin \/ ParTraceStep \/ ParTraceEnd

SpecPar == InitPar /\ [][NextPar]_vars


(***************************************************************************)
(* Map values and their builders: common/map_type_reflector.cc.            *)
(* A builder specialisation MapValueBuilderImpl<K, V> is the pair of its   *)
(* key and value types, "Value" standing for the dynamically typed one.    *)
(* Payloads are numbers: the strings are numbered.                         *)
(***************************************************************************)
MaxPuts == 2        \* entries a builder takes
HashRange == 3      \* distinct hashes, few enough for keys to collide

UintValue(n) == Val("Uint", "inline", n)
StringValue(n) == Val("String", "inline", n)
DoubleValue(n) == Val("Double", "inline", n)

\* The kinds the switch of MapValueKeyHash<Value> and CheckMapKey accept.
MapKeyKinds == {"Bool", "Int", "Uint", "String"}

\* ValueKind as a number.
KindRank(kind) ==
    CASE kind = "Bool" -> 1 [] kind = "Int" -> 2 [] kind = "Uint" -> 3
      [] kind = "String" -> 4 [] OTHER -> 0

DuplicateKeyError == [code |-> "already_exists", msg |-> "duplicate key in map"]
InvalidMapKeyTypeError == [code |-> "invalid_argument", msg |-> "Invalid map key type"]

\* ErrorValue::NativeValue: the status an Error value carries.
NativeValue(error) == [code |-> "carried", error |-> error.v]

\* absl::HashOf of a kind and a payload; a typed key hashes its payload alone.
HashOf(rank, payload) == (2 * rank + payload) % HashRange

\* What a functor returns, and whether it went through ABSL_DLOG(FATAL).
Hashed(fatal, hash) == [fatal |-> fatal, hash |-> hash]
Compared(fatal, equal) == [fatal |-> fatal, equal |-> equal]

\* MapValueKeyHash<K> and MapValueKeyHash<Value>
MapValueKeyHash(K, key) ==
    IF K # "Value" THEN Hashed(FALSE, HashOf(0, key.v))
    ELSE IF key.kind \in MapKeyKinds
    THEN Hashed(FALSE, HashOf(KindRank(key.kind), key.v))
    ELSE Hashed(TRUE, 0)

\* MapValueKeyEqualTo<Value> comparing the payloads whatever the kinds.
MapValueKeyEqualTo_IgnoresKind(K, lhs, rhs) ==
    IF K # "Value" THEN Compared(FALSE, lhs.v = rhs.v)
    ELSE IF lhs.kind \in MapKeyKinds /\ rhs.kind \in MapKeyKinds
    THEN Compared(FALSE, lhs.v = rhs.v)
    ELSE Compared(TRUE, FALSE)

\* MapValueKeyEqualTo<K> and MapValueKeyEqualTo<Value>
MapValueKeyEqualTo(K, lhs, rhs) ==
    IF K # "Value" THEN Compared(FALSE, lhs.v = rhs.v)
    ELSE IF lhs.kind \in MapKeyKinds /\ rhs.kind \in MapKeyKinds
    THEN Compared(FALSE, lhs.kind = rhs.kind /\ lhs.v = rhs.v)
    ELSE Compared(TRUE, FALSE)

\* absl::flat_hash_map::find with these functors: the key is hashed, the
\* entries of that hash are compared with it, and the position of the one that
\* compares equal is returned, 0 for end().
HashFind(K, entries, key) ==
    LET probed == {i \in 1..Len(entries) :
                      MapValueKeyHash(K, entries[i].key).hash = MapValueKeyHash(K, key).hash}
        hits == {i \in probed : MapValueKeyEqualTo(K, entries[i].key, key).equal}
    IN  [fatal |-> \/ MapValueKeyHash(K, key).fatal
                   \/ \E i \in probed : MapValueKeyEqualTo(K, entries[i].key, key).fatal,
         at |-> IF hits = {} THEN 0 ELSE CHOOSE i \in hits : \A j \in hits : i <= j]

Entry(key, value) == [key |-> key, value |-> value]

\* Put, lines 451-456, testing the value before the key.
CarriedError_ValueFirst(key, value) ==
    IF value.kind = "Error" THEN NativeValue(value)
    ELSE IF key.kind = "Error" THEN NativeValue(key)
    ELSE OkStatus

\* Put, lines 451-456: the error of the key, else the error of the value.
CarriedError(key, value) ==
    IF key.kind = "Error" THEN NativeValue(key)
    ELSE IF value.kind = "Error" THEN NativeValue(value)
    ELSE OkStatus

\* MapValueBuilderImpl<K, V>::Put, the same in the four specialisations: the
\* status returned, the entries_ left, and whether ABSL_DLOG(FATAL) was met.
Put(b, key, value) ==
    IF CarriedError(key, value) # OkStatus
    THEN [status |-> CarriedError(key, value), entries_ |-> b.entries_, fatal |-> FALSE]
    ELSE LET found == HashFind(b.K, b.entries_, key) IN
         IF found.at # 0
         THEN [status |-> DuplicateKeyError, entries_ |-> b.entries_, fatal |-> found.fatal]
         ELSE [status |-> OkStatus, entries_ |-> Append(b.entries_, Entry(key, value)),
               fatal |-> found.fatal]

\* TypedMapValue<K, V>::FindImpl
FindImpl(map, key) ==
    LET found == HashFind(map.K, map.entries_, key) IN
    [fatal |-> found.fatal, found |-> found.at # 0,
     result |-> IF found.at # 0 THEN map.entries_[found.at].value ELSE None]

\* TypedMapValue<K, V>::HasImpl
HasImpl(map, key) ==
    LET found == HashFind(map.K, map.entries_, key) IN
    [fatal |-> found.fatal, found |-> found.at # 0]

\* The builder specialisations.
KeyTypes == {"Int", "Value"}
ValueTypes == {"Int", "Value"}

\* The keys and values handed to Put.  Cast<K> and Cast<V> take a value of
\* their type: a typed builder is given keys of kind K, values of kind V, and
\* errors.
MapKeys ==
    {BoolValue(TRUE), IntValue(1), IntValue(2), UintValue(1), StringValue(1),
     DoubleValue(1), ErrorValue(1)}

MapValues == {IntValue(1), IntValue(2), ErrorValue(2)}

Accepts(T, value) == T = "Value" \/ value.kind \in {T, "Error"}

\* An ABSL_DLOG(FATAL) that was met ends the process unless NDEBUG compiled
\* it out.
Fatal(r) == r.fatal /\ ~ndebug

Abort ==
    /\ last' = [op |-> "abort"]
    /\ UNCHANGED <<builder, map_value, put_log>>

CallPut ==
    /\ last.op # "abort"
    /\ map_value = None
    /\ Len(builder.entries_) < MaxPuts
    /\ \E key \in MapKeys, value \in MapValues :
           /\ Accepts(builder.K, key)
           /\ Accepts(builder.V, value)
           /\ LET r == Put(builder, key, value) IN
              IF Fatal(r) THEN Abort
              ELSE /\ builder' = [builder EXCEPT !.entries_ = r.entries_]
                   /\ last' = [op |-> "Put", key |-> key, value |-> value,
                               status |-> r.status, before |-> builder.entries_]
                   /\ put_log' = IF r.status = OkStatus
                                 THEN Append(put_log, Entry(key, value))
                                 ELSE put_log
                   /\ UNCHANGED map_value
    /\ UNCHANGED ndebug
    /\ UNCHANGED notMapVars

\* MapValueBuilderImpl<K, V>::Build: entries_ is moved into the map.
CallBuild ==
    /\ last.op # "abort"
    /\ map_value = None
    /\ map_value' = [K |-> builder.K, V |-> builder.V, entries_ |-> builder.entries_]
    /\ builder' = [builder EXCEPT !.entries_ = <<>>]
    /\ last' = [op |-> "Build", size |-> Len(builder.entries_)]
    /\ UNCHANGED <<ndebug, put_log>>
    /\ UNCHANGED notMapVars

\* Find, with a key of one of the key kinds (of kind K in a typed map).
CallFind ==
    /\ last.op # "abort"
    /\ map_value # None
    /\ \E key \in MapKeys :
           /\ key.kind \in MapKeyKinds
           /\ Accepts(map_value.K, key)
           /\ LET r == FindImpl(map_value, key) IN
              IF Fatal(r) THEN Abort
              ELSE /\ last' = [op |-> "Find", key |-> key, found |-> r.found,
                               result |-> r.result]
                   /\ UNCHANGED <<builder, map_value, put_log>>
    /\ UNCHANGED ndebug
    /\ UNCHANGED notMapVars

CallHas ==
    /\ last.op # "abort"
    /\ map_value # None
    /\ \E key \in MapKeys :
           /\ key.kind \in MapKeyKinds
           /\ Accepts(map_value.K, key)
           /\ LET r == HasImpl(map_value, key) IN
              IF Fatal(r) THEN Abort
              ELSE /\ last' = [op |-> "Has", key |-> key, found |-> r.found]
                   /\ UNCHANGED <<builder, map_value, put_log>>
    /\ UNCHANGED ndebug
    /\ UNCHANGED notMapVars

\* The functors of the dynamically keyed map, applied to two keys.  They
\* read nothing but their arguments: they are applied while the builder is
\* still empty.
CallKeyFunctors ==
    /\ last.op # "abort"
    /\ map_value = None
    /\ builder.entries_ = <<>>
    /\ \E lhs \in MapKeys, rhs \in MapKeys :
           /\ lhs.kind # "Error"
           /\ rhs.kind # "Error"
           /\ LET eq == MapValueKeyEqualTo("Value", lhs, rhs)
                  lhs_hash == MapValueKeyHash("Value", lhs)
                  rhs_hash == MapValueKeyHash("Value", rhs)
              IN  IF Fatal(eq) \/ Fatal(lhs_hash) \/ Fatal(rhs_hash) THEN Abort
                  ELSE /\ last' = [op |-> "KeyFunctors", lhs |-> lhs, rhs |-> rhs,
                                   equal |-> eq.equal, fatal |-> eq.fatal,
                                   lhs_hash |-> lhs_hash.hash,
                                   rhs_hash |-> rhs_hash.hash]
                       /\ UNCHANGED <<builder, map_value, put_log>>
    /\ UNCHANGED ndebug
    /\ UNCHANGED notMapVars

\* No evaluation is going on.
TraceIdle ==
    /\ path_ = <<>>
    /\ activation = IntValue(1)
    /\ callback = [present |-> FALSE, fail_at |-> 0]
    /\ pc_ = 0
    /\ value_stack_ = <<>>
    /\ iter_stack_ = <<>>
    /\ initial_stack_size = 0
    /\ final_stack_size = 0
    /\ phase = "idle"
    /\ result = None
    /\ calls = <<>>
    /\ executed = <<>>
    /\ exit = "none"
    /\ runs = 0
    /\ fresh_result = None
    /\ stale = [values |-> 0, frames |-> 0]
    /\ ret = [op |-> "none"]
    /\ pushes = 0
    /\ pops = 0

\* A builder as NewMapValueBuilder makes it, in a debug or a release build.
InitMap ==
    /\ TraceIdle
    /\ ParIdle
    /\ ndebug \in BOOLEAN
    /\ \E K \in KeyTypes, V \in ValueTypes :
           builder = [K |-> K, V |-> V, entries_ |-> <<>>]
    /\ map_value = None
    /\ last = [op |-> "none"]
    /\ put_log = <<>>
    /\ objects = <<>>
    /\ IterIdle

NextMap == CallPut \/ CallBuild \/ CallFind \/ CallHas \/ CallKeyFunctors

SpecMap == InitMap /\ [][NextMap]_vars


(***************************************************************************)
(* Equality of maps and of structs: common_internal::MapValueEqual         *)
(* (common/values/map_value.cc) and common_internal::StructValueEqual      *)
(* (common/values/struct_value.cc).  The two objects compared are          *)
(* objects[1] and objects[2]; an object's identity is its position.        *)
(***************************************************************************)
MaxEntries == 2     \* entries of a compared map, fields of a compared struct

EqKeys == {IntValue(1), IntValue(2), StringValue(1)}
EqValues == {IntValue(1), IntValue(2)}
FieldNames == {"f", "g"}
TypeNames == {"A", "B"}

\* The sequences of at most MaxEntries items, no two in the same slot (under
\* the same key, or the same name), in the order in which iteration yields
\* them.
Iterations(items, slot) ==
    UNION {{seq \in [1..n -> items] :
               \A i, j \in 1..n : i # j => slot[seq[i]] # slot[seq[j]]} :
           n \in 0..MaxEntries}

KeyOf(entries) == [entry \in entries |-> entry.key]
NameOf(fields) == [field \in fields |-> field.name]

\* A map: the ParsedMapValueInterface behind a MapValue.  Size() is what it
\* reports, entries_ what its iterator yields and its FindImpl searches.
Map(K, size, entries) == [K |-> K, size |-> size, entries_ |-> entries]

\* The maps that the builders make: TypedMapValue<K, V>, Size() = entries_.size().
TypedMapValues ==
    UNION {{Map(K, Len(entries), entries) :
               entries \in
                   LET all == {Entry(key, value) :
                                  key \in {k \in EqKeys : Accepts(K, k)},
                                  value \in EqValues}
                   IN  Iterations(all, KeyOf(all))} :
           K \in KeyTypes}

\* Any implementation of the interface: Size() may be one off the number of
\* entries that the iterator yields.
AnyMapValues ==
    UNION {{Map(m.K, size, m.entries_) :
               size \in {n \in m.size - 1 .. m.size + 1 : n >= 0}} :
           m \in TypedMapValues}

\* A struct: its type name and the fields ForEachField yields.
StructValues ==
    {[type_name |-> name, fields |-> fields] :
        name \in TypeNames,
        fields \in
            LET all == {[name |-> n, value |-> v] : n \in FieldNames, v \in EqValues}
            IN  Iterations(all, NameOf(all))}

\* Is(lhs, rhs), struct_value.cc:625-627: the same interface pointer.
Is(lhs, rhs) == lhs = rhs

\* A value whose comparison does not come to a Bool value.
UnknownValue(n) == Val("Unknown", "inline", n)

\* Value::Equal on the values held: a Bool value, or (Equals is bool-or-error)
\* the operand that cannot be compared.
ValueEqual(lhs_value, rhs_value) ==
    IF lhs_value.kind = "Unknown" THEN lhs_value
    ELSE IF rhs_value.kind = "Unknown" THEN rhs_value
    ELSE BoolValue(lhs_value = rhs_value)

\* What a comparison came to: the result, whether a check ended the process,
\* and the entries or fields of either side that were examined.
Outcome(r, crash, examined) == [result |-> r, crash |-> crash, examined |-> examined]

\* MapValueEqual without the comparison of the sizes.
SizesDiffer_Never(lhs_size, rhs_size) == FALSE

\* MapValueEqual, lines 153-158
SizesDiffer(lhs_size, rhs_size) == lhs_size # rhs_size

\* MapValueEqual, lines 162-181: the loop from index on, and what follows it.
\* The indices here start at 1.
RECURSIVE MapValueEqualFrom(_, _, _)
MapValueEqualFrom(lhs, rhs, index) ==
    IF index > lhs.size
    THEN IF index <= Len(lhs.entries_) /\ ~ndebug
         THEN Outcome(None, "ABSL_DCHECK", index - 1)
         ELSE Outcome(BoolValue(TRUE), "none", index - 1)
    ELSE IF index > Len(lhs.entries_)
    THEN Outcome(None, "ABSL_CHECK", index - 1)
    ELSE LET lhs_key == lhs.entries_[index].key
             rhs_value == FindImpl(rhs, lhs_key)
             lhs_value == FindImpl(lhs, lhs_key).result
         IN  IF ~rhs_value.found
             THEN Outcome(BoolValue(FALSE), "none", index)
             ELSE IF ValueEqual(lhs_value, rhs_value.result) = BoolValue(FALSE)
             THEN Outcome(BoolValue(FALSE), "none", index)
             ELSE MapValueEqualFrom(lhs, rhs, index + 1)

\* common_internal::MapValueEqual: the overload for two MapValue, which tests
\* the identity first, and the one whose lhs is a ParsedMapValueInterface.
MapValueEqual(overload, lhs, rhs) ==
    IF overload = "MapValue" /\ Is(lhs, rhs)
    THEN Outcome(BoolValue(TRUE), "none", 0)
    ELSE IF SizesDiffer(objects[lhs].size, objects[rhs].size)
    THEN Outcome(BoolValue(FALSE), "none", 0)
    ELSE MapValueEqualFrom(objects[lhs], objects[rhs], 1)

\* StructValueEqual, lines 223-230: lhs_fields, by insert_or_assign.
LhsFields(lhs) ==
    [name \in {lhs.fields[i].name : i \in 1..Len(lhs.fields)} |->
        LET at == {i \in 1..Len(lhs.fields) : lhs.fields[i].name = name}
        IN  lhs.fields[CHOOSE i \in at : \A j \in at : j <= i].value]

\* StructValueEqual, lines 233-251: the callback over the fields of rhs from
\* position index on: whether equal still holds, rhs_fields_count, and the
\* fields of rhs it was called with.
RECURSIVE RhsFields(_, _, _, _)
RhsFields(lhs_fields, rhs, index, rhs_fields_count) ==
    IF index > Len(rhs.fields)
    THEN [equal |-> TRUE, count |-> rhs_fields_count, seen |-> index - 1]
    ELSE IF rhs.fields[index].name \notin DOMAIN lhs_fields
    THEN [equal |-> FALSE, count |-> rhs_fields_count, seen |-> index]
    ELSE IF ValueEqual(lhs_fields[rhs.fields[index].name], rhs.fields[index].value)
                = BoolValue(FALSE)
    THEN [equal |-> FALSE, count |-> rhs_fields_count, seen |-> index]
    ELSE RhsFields(lhs_fields, rhs, index + 1, rhs_fields_count + 1)

\* StructValueEqual without the comparison of the field counts.
FieldCountsDiffer_Never(rhs_fields_count, lhs_fields_size) == FALSE

\* StructValueEqual, line 252
FieldCountsDiffer(rhs_fields_count, lhs_fields_size) ==
    rhs_fields_count # lhs_fields_size

\* common_internal::StructValueEqual, the same in both overloads.
StructValueEqual(lhs, rhs) ==
    IF objects[lhs].type_name # objects[rhs].type_name
    THEN Outcome(BoolValue(FALSE), "none", 0)
    ELSE LET lhs_fields == LhsFields(objects[lhs])
             scan == RhsFields(lhs_fields, objects[rhs], 1, 0)
             examined == Len(objects[lhs].fields) + scan.seen
         IN  IF ~scan.equal \/ FieldCountsDiffer(scan.count, Cardinality(DOMAIN lhs_fields))
             THEN Outcome(BoolValue(FALSE), "none", examined)
             ELSE Outcome(BoolValue(TRUE), "none", examined)

\* rhs.Find of a typed map casts the key to its key type: the keys that lhs
\* yields are of a kind that rhs takes.
Findable(lhs, rhs) ==
    \A i \in 1..Len(objects[lhs].entries_) :
        Accepts(objects[rhs].K, objects[lhs].entries_[i].key)

Compare(op, overload, lhs, rhs, outcome) ==
    /\ last' = [op |-> op, overload |-> overload, lhs |-> lhs, rhs |-> rhs,
                result |-> outcome.result, crash |-> outcome.crash,
                examined |-> outcome.examined]
    /\ UNCHANGED <<ndebug, builder, map_value, put_log>>
    /\ UNCHANGED notMapVars

\* A comparison changes neither object: each behaviour makes one.
CallMapValueEqual ==
    /\ last.op = "none"
    /\ "entries_" \in DOMAIN objects[1]
    /\ \E overload \in {"MapValue", "ParsedMapValueInterface"} :
       \E lhs \in 1..2, rhs \in 1..2 :
           /\ Findable(lhs, rhs)
           /\ Compare("MapValueEqual", overload, lhs, rhs,
                      MapValueEqual(overload, lhs, rhs))

CallStructValueEqual ==
    /\ last.op = "none"
    /\ "fields" \in DOMAIN objects[1]
    /\ \E overload \in {"StructValue", "ParsedStructValueInterface"} :
       \E lhs \in 1..2, rhs \in 1..2 :
           Compare("StructValueEqual", overload, lhs, rhs, StructValueEqual(lhs, rhs))

\* Two maps, the second of them made by a builder, or two structs.
InitEq ==
    /\ TraceIdle
    /\ ParIdle
    /\ ndebug \in BOOLEAN
    /\ builder = <<>>
    /\ map_value = None
    /\ put_log = <<>>
    /\ last = [op |-> "none", crash |-> "none"]
    /\ IterIdle
    /\ \/ objects \in AnyMapValues \X TypedMapValues
       \/ objects \in StructValues \X StructValues

NextEq == CallMapValueEqual \/ CallStructValueEqual

SpecEq == InitEq /\ [][NextEq]_vars

\* Maps and structs that also hold values whose comparison is not a Bool.
NestedValues == {IntValue(1), UnknownValue(1), UnknownValue(2)}

NestedMapValues ==
    {Map("Value", Len(entries), entries) :
        entries \in
            LET all == {Entry(key, value) : key \in EqKeys, value \in NestedValues}
            IN  Iterations(all, KeyOf(all))}

NestedStructValues ==
    {[type_name |-> "A", fields |-> fields] :
        fields \in
            LET all == {[name |-> n, value |-> v] :
                           n \in FieldNames, v \in NestedValues}
            IN  Iterations(all, NameOf(all))}

InitEqNested ==
    /\ TraceIdle
    /\ ParIdle
    /\ ndebug \in BOOLEAN
    /\ builder = <<>>
    /\ map_value = None
    /\ put_log = <<>>
    /\ last = [op |-> "none", crash |-> "none"]
    /\ IterIdle
    /\ \/ objects \in NestedMapValues \X NestedMapValues
       \/ objects \in NestedStructValues \X NestedStructValues

SpecEqNested == InitEqNested /\ [][NextEq]_vars


(***************************************************************************)
(* The choice of the builder: TypeReflector::NewMapValueBuilder            *)
(* (common/map_type_reflector.cc).  A builder type MapValueBuilderImpl<K,  *)
(* V> is the pair of the names of K and V without their suffix "Value";    *)
(* the name of cel::Value itself is "Value".                               *)
(***************************************************************************)
InvalidArgumentError(m) == [code |-> "invalid_argument", msg |-> m]

\* cel::TypeKind, as far as map types go.
TypeKinds ==
    {"Bool", "Bytes", "Double", "Duration", "Int", "List", "Map", "Null",
     "Opaque", "String", "Timestamp", "Type", "Uint", "Dyn", "Struct", "Error"}

\* What the builder of the legacy type reflector may come to, when there is
\* one and the memory manager is pooling: "none" when it is not consulted.
LegacyOutcomes == {"none", "ok", "unimplemented", "error"}

\* The template argument that stands for a type kind.
ValueOf(kind) == IF kind = "Dyn" THEN "Value" ELSE kind

\* A choice in which dyn on either side gives the (Value, Value) builder.
NewMapValueBuilder_DynFallback(legacy, key, value) ==
    IF "Dyn" \in {key, value}
    THEN [ok |-> TRUE, impl |-> "MapValueBuilderImpl", K |-> "Value", V |-> "Value"]
    ELSE [ok |-> TRUE, impl |-> "MapValueBuilderImpl", K |-> key, V |-> value]

\* TypeReflector::NewMapValueBuilder, lines 648-978
NewMapValueBuilder(legacy, key, value) ==
    IF legacy = "ok"
    THEN [ok |-> TRUE, impl |-> "legacy", K |-> "Value", V |-> "Value"]
    ELSE IF legacy = "error"
    THEN [ok |-> FALSE, status |-> InternalError("legacy")]
    ELSE IF key \notin {"Bool", "Int", "Uint", "String", "Dyn"}
    THEN [ok |-> FALSE, status |-> InvalidArgumentError("invalid map key type")]
    ELSE IF value \notin {"Bool", "Bytes", "Double", "Duration", "Int", "List",
                          "Map", "Null", "Opaque", "String", "Timestamp", "Type",
                          "Uint", "Dyn"}
    THEN [ok |-> FALSE, status |-> InvalidArgumentError("invalid map value type")]
    ELSE [ok |-> TRUE, impl |-> "MapValueBuilderImpl",
          K |-> ValueOf(key), V |-> ValueOf(value)]

CallNewMapValueBuilder ==
    /\ last.op = "none"
    /\ \E legacy \in LegacyOutcomes, key \in TypeKinds, value \in TypeKinds :
           LET r == NewMapValueBuilder(legacy, key, value) IN
           /\ builder' = IF r.ok /\ r.impl = "MapValueBuilderImpl"
                         THEN [K |-> r.K, V |-> r.V, entries_ |-> <<>>]
                         ELSE builder
           /\ last' = [op |-> "NewMapValueBuilder", legacy |-> legacy,
                       key |-> key, value |-> value, result |-> r]
    /\ UNCHANGED <<ndebug, map_value, put_log>>
    /\ UNCHANGED notMapVars

\* No builder yet.
InitNew ==
    /\ TraceIdle
    /\ ParIdle
    /\ IterIdle
    /\ ndebug = FALSE
    /\ builder = <<>>
    /\ map_value = None
    /\ last = [op |-> "none"]
    /\ put_log = <<>>
    /\ objects = <<>>

SpecNew == InitNew /\ [][CallNewMapValueBuilder]_vars


(***************************************************************************)
(* The builders of the well-known types (common/value_provider.cc):        *)
(* BoolValueBuilder ... BytesValueBuilder for the wrapper messages,        *)
(* DurationValueBuilder and TimestampValueBuilder.  The builder is         *)
(* builder, a record of its type and its members; put_log holds the        *)
(* set-field calls that returned OK.  A 64-bit integer n is the pair of    *)
(* hi = n \div 2^16 and lo = n % 2^16, so that the limits of 32 bits are   *)
(* hi = -2^15, 2^15 - 1 and 2^16 - 1.                                      *)
(***************************************************************************)
MaxSets == 2        \* set-field calls that returned OK, per builder

Int64(hi, lo) == [hi |-> hi, lo |-> lo]

BytesValue(n) == Val("Bytes", "inline", n)

NoSuchFieldError(field) == [code |-> "no_such_field", msg |-> field]
TypeConversionError(from, to) == [code |-> "type_conversion", msg |-> to, from |-> from]
OutOfRangeError(m) == [code |-> "out_of_range", msg |-> m]

\* internal::CheckedInt64ToInt32 and internal::CheckedUint64ToUint32
CheckedInt64ToInt32(v) ==
    IF v.hi < -32768 \/ v.hi > 32767
    THEN StatusOrError(OutOfRangeError("int64 out of int32 range"))
    ELSE StatusOrValue(v)

CheckedUint64ToUint32(v) ==
    IF v.hi > 65535
    THEN StatusOrError(OutOfRangeError("uint64 out of uint32 range"))
    ELSE StatusOrValue(v)

\* static_cast<float>(double), for a double that is a whole number n with
\* 0 <= n < 2^25: 24 bits are kept, a tie goes to the even neighbour.
FloatCast(n) ==
    IF n <= 16777216 \/ n % 2 = 0 THEN n
    ELSE 2 * (IF (n \div 2) % 2 = 0 THEN n \div 2 ELSE n \div 2 + 1)

WrapperTypes ==
    {"Bool", "Int32", "Int64", "UInt32", "UInt64", "Float", "Double", "String", "Bytes"}

WellKnownTypes == WrapperTypes \cup {"Duration", "Timestamp"}

\* The kind of value that the wrapper builder of a type takes, which is also
\* the kind it builds.
WrappedKind(type) ==
    CASE type = "Bool" -> "Bool"
      [] type \in {"Int32", "Int64"} -> "Int"
      [] type \in {"UInt32", "UInt64"} -> "Uint"
      [] type \in {"Float", "Double"} -> "Double"
      [] type = "String" -> "String"
      [] type = "Bytes" -> "Bytes"

\* What a member without an initializer may hold when the constructor is done.
Indeterminate == {0, 5}

\* The builder after its constructor: the members of the wrapper builders
\* have default member initializers, seconds_ and nanos_ have none.
WellKnownValueBuilder(type, seconds, nanos) ==
    IF type \in {"Duration", "Timestamp"}
    THEN [type |-> type, seconds_ |-> Int64(0, seconds), nanos_ |-> nanos]
    ELSE [type |-> type,
          value_ |-> IF WrappedKind(type) \in {"Int", "Uint"} THEN Int64(0, 0) ELSE 0]

\* SetValue that stores whatever number it is given.
SetValue_Unchecked(b, value) ==
    IF value.kind # WrappedKind(b.type)
    THEN [status |-> TypeConversionError(value.kind, WrappedKind(b.type)), b |-> b]
    ELSE [status |-> OkStatus, b |-> [b EXCEPT !.value_ = value.v]]

\* SetValue of the wrapper builders, e.g. lines 80-86 and 119-126
SetValue(b, value) ==
    IF value.kind # WrappedKind(b.type)
    THEN [status |-> TypeConversionError(value.kind, WrappedKind(b.type)), b |-> b]
    ELSE LET checked ==
                 CASE b.type = "Int32" -> CheckedInt64ToInt32(value.v)
                   [] b.type = "UInt32" -> CheckedUint64ToUint32(value.v)
                   [] b.type = "Float" -> StatusOrValue(FloatCast(value.v))
                   [] OTHER -> StatusOrValue(value.v)
         IN  IF checked.ok
             THEN [status |-> OkStatus, b |-> [b EXCEPT !.value_ = checked.value]]
             ELSE [status |-> checked.status, b |-> b]

\* DurationValueBuilder::SetSeconds, lines 445-451
SetSeconds(b, value) ==
    IF value.kind # "Int"
    THEN [status |-> TypeConversionError(value.kind, "Int"), b |-> b]
    ELSE [status |-> OkStatus, b |-> [b EXCEPT !.seconds_ = value.v]]

\* DurationValueBuilder::SetNanos, lines 453-460: nanos_ is an int32_t
SetNanos(b, value) ==
    IF value.kind # "Int"
    THEN [status |-> TypeConversionError(value.kind, "Int"), b |-> b]
    ELSE LET checked == CheckedInt64ToInt32(value.v)
         IN  IF checked.ok
             THEN [status |-> OkStatus,
                   b |-> [b EXCEPT !.nanos_ = checked.value.hi * 65536 + checked.value.lo]]
             ELSE [status |-> checked.status, b |-> b]

SetFieldByName(b, name, value) ==
    IF b.type \in WrapperTypes
    THEN IF name # "value"
         THEN [status |-> NoSuchFieldError(name), b |-> b]
         ELSE SetValue(b, value)
    ELSE IF name = "seconds" THEN SetSeconds(b, value)
    ELSE IF name = "nanos" THEN SetNanos(b, value)
    ELSE [status |-> NoSuchFieldError(name), b |-> b]

\* SetFieldByNumber that takes any number for the first field.
SetFieldByNumber_AnyNumber(b, number, value) ==
    IF b.type \in WrapperTypes THEN SetValue(b, value)
    ELSE IF number = 2 THEN SetNanos(b, value)
    ELSE SetSeconds(b, value)

SetFieldByNumber(b, number, value) ==
    IF b.type \in WrapperTypes
    THEN IF number # 1
         THEN [status |-> NoSuchFieldError(ToString(number)), b |-> b]
         ELSE SetValue(b, value)
    ELSE IF number = 1 THEN SetSeconds(b, value)
    ELSE IF number = 2 THEN SetNanos(b, value)
    ELSE [status |-> NoSuchFieldError(ToString(number)), b |-> b]

\* absl::Seconds(seconds) + absl::Nanoseconds(nanos): whole seconds, and
\* nanoseconds from 0 to 10^9 - 1.
Duration(seconds, nanos) ==
    LET lo == seconds.lo + nanos \div 1000000000
    IN  [seconds |-> Int64(seconds.hi + lo \div 65536, lo % 65536),
         nanos |-> nanos % 1000000000]

\* Build() &&; a timestamp is the duration since absl::UnixEpoch().
Build(b) ==
    CASE b.type \in WrapperTypes -> Val(WrappedKind(b.type), "inline", b.value_)
      [] b.type = "Duration" -> Val("Duration", "inline", Duration(b.seconds_, b.nanos_))
      [] b.type = "Timestamp" -> Val("Timestamp", "inline", Duration(b.seconds_, b.nanos_))

\* The values, names and numbers that the calls are made with.  2^24 + 1 is
\* a double that is not a float.
SetValues ==
    {Val("Bool", "inline", 1), DoubleValue(16777217), StringValue(1), BytesValue(1)}
    \cup {IntValue(n) : n \in {Int64(0, 1), Int64(32767, 65535), Int64(32768, 0),
                                Int64(-32768, 0), Int64(-32769, 65535)}}
    \cup {UintValue(n) : n \in {Int64(0, 1), Int64(65535, 65535), Int64(65536, 0)}}

SetNames == {"value", "seconds", "nanos", "values"}
SetNumbers == 0..3

\* The field that a name or a number stands for in a builder of this type.
FieldOf(type, op, field) ==
    LET first == IF op = "SetFieldByName"
                 THEN field = (IF type \in WrapperTypes THEN "value" ELSE "seconds")
                 ELSE field = 1
        second == IF op = "SetFieldByName" THEN field = "nanos" ELSE field = 2
    IN  IF type \in WrapperTypes
        THEN IF first THEN "value" ELSE "none"
        ELSE IF first THEN "seconds"
        ELSE IF second THEN "nanos"
        ELSE "none"

SetField(op, field, value, r) ==
    /\ builder' = r.b
    /\ last' = [op |-> op, field |-> field, value |-> value, status |-> r.status]
    /\ put_log' = IF r.status = OkStatus
                  THEN Append(put_log, [field |-> FieldOf(builder.type, op, field),
                                        value |-> value])
                  ELSE put_log
    /\ UNCHANGED <<ndebug, map_value>>
    /\ UNCHANGED notMapVars

CallSetFieldByName ==
    /\ last.op # "Build"
    /\ Len(put_log) < MaxSets
    /\ \E name \in SetNames, value \in SetValues :
           SetField("SetFieldByName", name, value, SetFieldByName(builder, name, value))

CallSetFieldByNumber ==
    /\ last.op # "Build"
    /\ Len(put_log) < MaxSets
    /\ \E number \in SetNumbers, value \in SetValues :
           SetField("SetFieldByNumber", number, value,
                    SetFieldByNumber(builder, number, value))

CallValueBuild ==
    /\ last.op # "Build"
    /\ last' = [op |-> "Build", result |-> Build(builder)]
    /\ UNCHANGED <<ndebug, builder, map_value, put_log>>
    /\ UNCHANGED notMapVars

\* A builder as the provider makes it, lines 797-802
InitValue ==
    /\ TraceIdle
    /\ ParIdle
    /\ IterIdle
    /\ ndebug = FALSE
    /\ \E type \in WellKnownTypes, seconds \in Indeterminate, nanos \in Indeterminate :
           builder = WellKnownValueBuilder(type, seconds, nanos)
    /\ map_value = None
    /\ last = [op |-> "none"]
    /\ put_log = <<>>
    /\ objects = <<>>

NextValue == CallSetFieldByName \/ CallSetFieldByNumber \/ CallValueBuild

SpecValue == InitValue /\ [][NextValue]_vars


(***************************************************************************)
(* Iteration over a map: TypedMapValue::ForEach, TypedMapValue::NewIterator *)
(* and TypedMapValueKeyIterator (common/map_type_reflector.cc).  The map   *)
(* is map_value; an iterator's begin_ and end_ are positions in entries_.  *)
(***************************************************************************)
FailedPreconditionError(m) == [code |-> "failed_precondition", msg |-> m]

\* The error a ForEachCallback may return.
CallbackError == [code |-> "aborted", msg |-> "callback"]

\* What a ForEachCallback may return for an entry: absl::StatusOr<bool>.
CallbackReturns ==
    {StatusOrValue(TRUE), StatusOrValue(FALSE), StatusOrError(CallbackError)}

\* TypedMapValue::ForEach, lines 385-391, from position index on; invoked is
\* the entries the callback has been invoked with.
RECURSIVE ForEachFrom(_, _, _, _)
ForEachFrom(entries, cb, index, invoked) ==
    IF index > Len(entries)
    THEN [status |-> OkStatus, invoked |-> invoked]
    ELSE LET ok == cb[entries[index]]
             now == Append(invoked, entries[index])
         IN  IF ~ok.ok
             THEN [status |-> ok.status, invoked |-> now]
             ELSE IF ~ok.value
             THEN [status |-> OkStatus, invoked |-> now]
             ELSE ForEachFrom(entries, cb, index + 1, now)

\* ForEach that goes on after the callback returned false.
ForEach_NoBreak(map, cb) ==
    ForEachFrom(map.entries_,
                [e \in DOMAIN cb |-> IF cb[e].ok THEN StatusOrValue(TRUE) ELSE cb[e]],
                1, <<>>)

ForEach(map, cb) == ForEachFrom(map.entries_, cb, 1, <<>>)

\* The constructor, lines 295-297
TypedMapValueKeyIterator(entries) == [begin_ |-> 1, end_ |-> Len(entries) + 1]

HasNext(it) == it.begin_ # it.end_

\* Next that yields the key and stays where it is.
IteratorNext_Stays(it, entries) ==
    IF it.begin_ = it.end_
    THEN [status |-> FailedPreconditionError("HasNext() returns false"),
          result |-> None, it |-> it]
    ELSE [status |-> OkStatus, result |-> entries[it.begin_].key, it |-> it]

\* TypedMapValueKeyIterator::Next, lines 301-311
IteratorNext(it, entries) ==
    IF it.begin_ = it.end_
    THEN [status |-> FailedPreconditionError("HasNext() returns false"),
          result |-> None, it |-> it]
    ELSE [status |-> OkStatus, result |-> entries[it.begin_].key,
          it |-> [it EXCEPT !.begin_ = @ + 1]]

IterUnchanged ==
    /\ UNCHANGED <<ndebug, builder, map_value, put_log, objects>>
    /\ UNCHANGED <<traceVars, parVars, rewriteVars>>

CallForEach ==
    /\ \E cb \in [{map_value.entries_[i] : i \in 1..Len(map_value.entries_)}
                      -> CallbackReturns] :
           LET r == ForEach(map_value, cb)
           IN  last' = [op |-> "ForEach", callback |-> cb,
                        status |-> r.status, invoked |-> r.invoked]
    /\ UNCHANGED iterVars
    /\ IterUnchanged

CallNewIterator ==
    /\ key_iterator = None
    /\ key_iterator' = TypedMapValueKeyIterator(map_value.entries_)
    /\ last' = [op |-> "NewIterator"]
    /\ UNCHANGED yielded
    /\ IterUnchanged

CallHasNext ==
    /\ key_iterator # None
    /\ last' = [op |-> "HasNext", result |-> HasNext(key_iterator)]
    /\ UNCHANGED iterVars
    /\ IterUnchanged

CallNext ==
    /\ key_iterator # None
    /\ LET r == IteratorNext(key_iterator, map_value.entries_)
       IN  /\ key_iterator' = r.it
           /\ yielded' = IF r.status = OkStatus
                          THEN Append(yielded, r.result) ELSE yielded
           /\ last' = [op |-> "Next", status |-> r.status, result |-> r.result]
    /\ IterUnchanged

\* A map that a builder made, and no iterator over it yet.
InitIter ==
    /\ TraceIdle
    /\ ParIdle
    /\ ndebug = FALSE
    /\ builder = <<>>
    /\ \E m \in TypedMapValues :
           map_value = [K |-> m.K, V |-> "Value", entries_ |-> m.entries_]
    /\ last = [op |-> "none"]
    /\ put_log = <<>>
    /\ objects = <<>>
    /\ key_iterator = None
    /\ yielded = <<>>
    /\ ast = <<>>
    /\ opts = <<>>
    /\ records = <<>>
    /\ traversal_path = <<>>
    /\ handler_calls = <<>>
    /\ rewrite = <<>>

NextIter == CallForEach \/ CallNewIterator \/ CallHasNext \/ CallNext

SpecIter == InitIter /\ [][NextIter]_vars


(***************************************************************************)
(* The traversal of an AST: AstRewrite (common/ast_rewrite.h), as the      *)
(* tests of common/ast_rewrite_test.cc exercise it.  A node of the tree is *)
(* a number (the address of the Expr), the root is node 1.                 *)
(***************************************************************************)
MaxRewrites == 1    \* calls of PreVisitRewrite / PostVisitRewrite that rewrite

Expr(kind, children) == [kind |-> kind, children |-> children]

\* ComprehensionArg: ITER_RANGE, ACCU_INIT, LOOP_CONDITION, LOOP_STEP and
\* RESULT are 0 to 4.

\* The tree of CheckCrawlComprehension and CheckCrawlComprehensionLegacyCallbacks
ComprehensionOfTest ==
    <<Expr("comprehension", <<2, 3, 4, 5, 6>>), Expr("const", <<>>), Expr("ident", <<>>),
      Expr("const", <<>>), Expr("ident", <<>>), Expr("const", <<>>)>>

\* The tree of CheckExprRewriteHandlers: var.mid.top
SelectOfTest ==
    <<Expr("select", <<2>>), Expr("select", <<3>>), Expr("ident", <<>>)>>

\* The trees traversed: those of the tests, a comprehension under a select,
\* and a comprehension whose sub-expressions are a select, a call with two
\* arguments and another comprehension.
Trees ==
    {ComprehensionOfTest, SelectOfTest,
     <<Expr("select", <<2>>), Expr("comprehension", <<3, 4, 5, 6, 7>>),
       Expr("ident", <<>>), Expr("const", <<>>), Expr("const", <<>>),
       Expr("ident", <<>>), Expr("ident", <<>>)>>,
     <<Expr("comprehension", <<2, 3, 4, 5, 6>>), Expr("select", <<7>>),
       Expr("const", <<>>), Expr("call", <<8, 9>>),
       Expr("comprehension", <<10, 11, 12, 13, 14>>), Expr("ident", <<>>),
       Expr("ident", <<>>), Expr("ident", <<>>), Expr("const", <<>>),
       Expr("ident", <<>>), Expr("const", <<>>), Expr("const", <<>>),
       Expr("ident", <<>>), Expr("ident", <<>>)>>}

\* A call on the handler: the method, the Expr it is given, the
\* comprehension it is given, the argument number, and the path.
HandlerCall(cb, node, of, arg, path) ==
    [cb |-> cb, node |-> node, of |-> of, arg |-> arg, path |-> path]

OnExpr(cb, node) == HandlerCall(cb, node, 0, -1, <<>>)

\* StackRecord: an ExprRecord, an ArgRecord (of the calling expression) or a
\* ComprehensionRecord (of the comprehension).
StackRecord(variant, node, of, arg) ==
    [variant |-> variant, node |-> node, of |-> of, arg |-> arg, visited |-> FALSE]

\* PreVisit(record, visitor): the calls it makes.
PreVisit(record, nodes) ==
    CASE record.variant = "ExprRecord" ->
             <<OnExpr("PreVisitExpr", record.node)>> \o
             (CASE nodes[record.node].kind = "select" ->
                       <<OnExpr("PreVisitSelect", record.node)>>
                [] nodes[record.node].kind = "call" ->
                       <<OnExpr("PreVisitCall", record.node)>>
                [] nodes[record.node].kind = "comprehension" ->
                       <<OnExpr("PreVisitComprehension", record.node)>>
                [] OTHER -> <<>>)
      [] record.variant = "ArgRecord" -> <<>>
      [] record.variant = "ComprehensionRecord" ->
             <<HandlerCall("PreVisitComprehensionSubexpression", record.node,
                           record.of, record.arg, <<>>)>>

\* PostVisit(record, visitor): the calls it makes.
PostVisit(record, nodes) ==
    CASE record.variant = "ExprRecord" ->
             <<OnExpr(CASE nodes[record.node].kind = "const" -> "PostVisitConst"
                        [] nodes[record.node].kind = "ident" -> "PostVisitIdent"
                        [] nodes[record.node].kind = "select" -> "PostVisitSelect"
                        [] nodes[record.node].kind = "call" -> "PostVisitCall"
                        [] nodes[record.node].kind = "comprehension" ->
                               "PostVisitComprehension",
                      record.node),
               OnExpr("PostVisitExpr", record.node)>>
      [] record.variant = "ArgRecord" ->
             <<HandlerCall("PostVisitArg", record.of, 0, record.arg, <<>>)>>
      [] record.variant = "ComprehensionRecord" ->
             <<HandlerCall("PostVisitComprehensionSubexpression", record.node,
                           record.of, record.arg, <<>>)>>

\* PushDependencies that pushes the sub-expressions of a comprehension in
\* their order, so that the result is on top.
PushDependencies_ResultFirst(record, nodes, options) ==
    LET children == nodes[record.node].children
    IN  IF record.variant # "ExprRecord"
        THEN <<StackRecord("ExprRecord", record.node, 0, -1)>>
        ELSE [i \in 1..Len(children) |->
                 StackRecord(IF nodes[record.node].kind = "select" THEN "ExprRecord"
                             ELSE IF nodes[record.node].kind = "comprehension"
                                     /\ options.use_comprehension_callbacks
                             THEN "ComprehensionRecord" ELSE "ArgRecord",
                             children[i], record.node, i - 1)]

\* PushDependencies(record, stack, options): the records it pushes, in the
\* order in which it pushes them: the last sub-expression first.
PushDependencies(record, nodes, options) ==
    LET children == nodes[record.node].children
        n == Len(children)
    IN  IF record.variant # "ExprRecord"
        THEN <<StackRecord("ExprRecord", record.node, 0, -1)>>
        ELSE [i \in 1..n |->
                 StackRecord(IF nodes[record.node].kind = "select" THEN "ExprRecord"
                             ELSE IF nodes[record.node].kind = "comprehension"
                                     /\ options.use_comprehension_callbacks
                             THEN "ComprehensionRecord" ELSE "ArgRecord",
                             children[n + 1 - i], record.node, n - i)]

\* What a handler's PreVisitRewrite or PostVisitRewrite does when it
\* rewrites: the node becomes an identifier.
Rewritten(nodes, node, rewrites) ==
    IF rewrites THEN [nodes EXCEPT ![node] = Expr("ident", <<>>)] ELSE nodes

\* traversal_path that is never popped.
Left_Stays(path, record) == path

\* traversal_path.push_back(record.expr()) and traversal_path.pop_back(), for
\* an ExprRecord.
Entered(path, record) ==
    IF record.variant = "ExprRecord" THEN Append(path, record.node) ELSE path

Left(path, record) ==
    IF record.variant = "ExprRecord" THEN SubSeq(path, 1, Len(path) - 1) ELSE path

RewriteUnchanged ==
    /\ UNCHANGED <<traceVars, parVars, mapVars, objects, iterVars>>

AstRewriteBegin ==
    /\ rewrite.at = "start"
    /\ records' = <<StackRecord("ExprRecord", 1, 0, -1)>>
    /\ rewrite' = [rewrite EXCEPT !.at = "loop"]
    /\ UNCHANGED <<ast, opts, traversal_path, handler_calls>>
    /\ RewriteUnchanged

\* The loop body for a record that has not been visited.
AstRewritePreVisit ==
    /\ rewrite.at = "loop"
    /\ records # <<>>
    /\ LET record == records[Len(records)] IN
       /\ ~record.visited
       /\ \E rewrites \in {r \in BOOLEAN :
                               r => /\ record.variant = "ExprRecord"
                                    /\ rewrite.rewrites < MaxRewrites} :
          LET path == Entered(traversal_path, record)
              nodes == Rewritten(ast, record.node, rewrites)
          IN  /\ traversal_path' = path
              /\ ast' = nodes
              /\ handler_calls' =
                     handler_calls \o
                     (IF record.variant = "ExprRecord"
                      THEN <<HandlerCall("TraversalStackUpdate", 0, 0, -1, path),
                             OnExpr("PreVisitRewrite", record.node)>>
                      ELSE <<>>) \o
                     PreVisit(record, nodes)
              /\ records' = [records EXCEPT ![Len(records)].visited = TRUE] \o
                            PushDependencies(record, nodes, opts)
              /\ rewrite' = [rewrite EXCEPT
                                 !.rewritten = @ \/ rewrites,
                                 !.rewrites = IF rewrites THEN @ + 1 ELSE @]
    /\ UNCHANGED opts
    /\ RewriteUnchanged

\* The loop body for a record that has been visited.
AstRewritePostVisit ==
    /\ rewrite.at = "loop"
    /\ records # <<>>
    /\ LET record == records[Len(records)] IN
       /\ record.visited
       /\ \E rewrites \in {r \in BOOLEAN :
                               r => /\ record.variant = "ExprRecord"
                                    /\ rewrite.rewrites < MaxRewrites} :
          LET path == Left(traversal_path, record)
          IN  /\ traversal_path' = path
              /\ ast' = Rewritten(ast, record.node, rewrites)
              /\ handler_calls' =
                     handler_calls \o PostVisit(record, ast) \o
                     (IF record.variant = "ExprRecord"
                      THEN <<OnExpr("PostVisitRewrite", record.node),
                             HandlerCall("TraversalStackUpdate", 0, 0, -1, path)>>
                      ELSE <<>>)
              /\ records' = SubSeq(records, 1, Len(records) - 1)
              /\ rewrite' = [rewrite EXCEPT
                                 !.rewritten = @ \/ rewrites,
                                 !.rewrites = IF rewrites THEN @ + 1 ELSE @]
    /\ UNCHANGED opts
    /\ RewriteUnchanged

\* The stack is empty: return rewritten.
AstRewriteEnd ==
    /\ rewrite.at = "loop"
    /\ records = <<>>
    /\ rewrite' = [rewrite EXCEPT !.at = "returned"]
    /\ UNCHANGED <<ast, opts, records, traversal_path, handler_calls>>
    /\ RewriteUnchanged

InitRewrite ==
    /\ TraceIdle
    /\ ParIdle
    /\ ndebug = FALSE
    /\ builder = <<>>
    /\ map_value = None
    /\ last = [op |-> "none"]
    /\ put_log = <<>>
    /\ objects = <<>>
    /\ key_iterator = <<>>
    /\ yielded = <<>>
    /\ ast \in Trees
    /\ opts \in [use_comprehension_callbacks : BOOLEAN]
    /\ records = <<>>
    /\ traversal_path = <<>>
    /\ handler_calls = <<>>
    /\ rewrite = [at |-> "start", rewritten |-> FALSE, rewrites |-> 0]

NextRewrite ==
    AstRewriteBegin \/ AstRewritePreVisit \/ AstRewritePostVisit \/ AstRewriteEnd

SpecRewrite == InitRewrite /\ [][NextRewrite]_vars


(***************************************************************************)
(* Properties of Trace, checked under Spec.                                *)
(***************************************************************************)
StepAt(k) == path_[executed[k].index]

AllStepsOk == \A k \in 1..Len(executed) : executed[k].status = OkStatus
AllCallsOk == \A j \in 1..Len(calls) : calls[j].status = OkStatus

\* Trace returned after Next returned nullptr.
RanToEnd == phase = "returned" /\ AllStepsOk /\ AllCallsOk

\* The depth of the operand stack after the last executed step.
FinalDepth ==
    IF executed = <<>> THEN initial_stack_size ELSE executed[Len(executed)].depth

CallsAt(k) == {j \in 1..Len(calls) : calls[j].at = k}

\* C1: an evaluation that ran the step sequence to its end succeeded only if
\* the operand stack then held exactly one value more than when the loop
\* started; with any other final depth it returned the internal status
\* "Stack error during evaluation" and no value.
Thm_C1 ==
    RanToEnd =>
        /\ result.ok => FinalDepth = initial_stack_size + 1
        /\ FinalDepth # initial_stack_size + 1 =>
               result = StatusOrError(InternalError("Stack error during evaluation"))

Wit_C1 ==
    /\ RanToEnd
    /\ FinalDepth = initial_stack_size + 2
    /\ ~result.ok

\* The k-th executed step was a jump whose target lies outside the path.
DanglingJump(k) ==
    /\ StepAt(k).op = "Jump"
    /\ \/ executed[k].index + StepAt(k).offset < 0
       \/ executed[k].index + StepAt(k).offset > Len(path_)

Thm_C3 ==
    \A k \in 1..Len(executed) :
        executed[k].status # OkStatus =>
            /\ k = Len(executed)
            /\ phase = "returned"
            /\ result = StatusOrError(executed[k].status)
            /\ CallsAt(k) = {}

Wit_C3 ==
    /\ phase = "returned"
    /\ callback.present
    /\ executed # <<>>
    /\ executed[Len(executed)].status # OkStatus
    /\ StepAt(Len(executed)).from_ast
    /\ executed[Len(executed)].depth > 0
    /\ pc_ < Len(path_)

\* C4: a listener invocation that returned a non-OK status is the last
\* invocation, it followed the last step the evaluation executed, and the
\* evaluation returned that status and no value.
Thm_C4 ==
    \A j \in 1..Len(calls) :
        calls[j].status # OkStatus =>
            /\ j = Len(calls)
            /\ calls[j].at = Len(executed)
            /\ phase = "returned"
            /\ result = StatusOrError(calls[j].status)

Wit_C4 ==
    /\ phase = "returned"
    /\ Len(calls) = 2
    /\ calls[2].status # OkStatus
    /\ pc_ < Len(path_)

\* The order and the arguments of the listener's invocations.
CallsFollowSteps ==
    /\ \A i, j \in 1..Len(calls) : i < j => calls[i].at < calls[j].at
    /\ \A j \in 1..Len(calls) :
           /\ calls[j].at \in 1..Len(executed)
           /\ StepAt(calls[j].at).from_ast
           /\ calls[j].id = StepAt(calls[j].at).id
           /\ executed[calls[j].at].depth > 0
           /\ calls[j].value = ToLegacyValue(executed[calls[j].at].top).value

\* C5, as stated: in a traced evaluation every step from the AST that was
\* executed (and returned OK) is followed by exactly one listener invocation.
CE_C5 ==
    (callback.present /\ phase # "aborted") =>
        /\ CallsFollowSteps
        /\ \A k \in 1..Len(executed) :
               (executed[k].status = OkStatus /\ StepAt(k).from_ast)
                   => Cardinality(CallsAt(k)) = 1

\* The k-th executed step is one the listener is invoked for.
Traced(k) ==
    /\ callback.present
    /\ executed[k].status = OkStatus
    /\ StepAt(k).from_ast
    /\ executed[k].depth > 0
    /\ ToLegacyValue(executed[k].top).ok

\* C5, amended: the listener is invoked exactly once, in execution order, with
\* the step's id and the legacy form of the top of the operand stack, after
\* every executed step from the AST that returned OK and left the operand
\* stack non-empty with a top that has a legacy form; it is not invoked after
\* any other step.
Thm_C5 ==
    /\ CallsFollowSteps
    /\ \A k \in 1..Len(executed) :
           Cardinality(CallsAt(k)) = IF Traced(k) THEN 1 ELSE 0

Wit_C5 ==
    /\ Len(calls) = 2
    /\ \E k \in 1..Len(executed) :
           StepAt(k).from_ast /\ executed[k].status = OkStatus /\ executed[k].depth = 0
    /\ \E k \in 1..Len(executed) : ~StepAt(k).from_ast

\* C6: when every step completed without an engine failure and exactly one
\* value remained, Evaluate returned success, whatever the kind of the value.
CE_C6 ==
    final_stack_size = initial_stack_size + 1 =>
        /\ phase = "returned"
        /\ result.ok

\* C10: every evaluation starts with an empty operand stack and an empty
\* iteration stack, and an evaluation with a state object that earlier
\* evaluations used returns what the evaluation with the fresh state returned.
Thm_C10 ==
    /\ (phase = "running" /\ executed = <<>>) =>
           (value_stack_ = <<>> /\ iter_stack_ = <<>>)
    /\ (phase = "returned" /\ runs >= 2) => result = fresh_result

Wit_C10 ==
    /\ phase = "returned"
    /\ runs = 2
    /\ stale.values > 0
    /\ stale.frames > 0
    /\ exit = "step"


(***************************************************************************)
(* Properties of the iteration-frame methods, checked under SpecFrame.     *)
(***************************************************************************)
\* The variables of frame i that are called name, and those of them that
\* hold a value.
Names(i, name) == {v \in {"iter_var", "accu_var"} : iter_stack_[i][v].name = name}
Valued(i, name) == {v \in Names(i, name) : iter_stack_[i][v].value # None}

Innermost(frames) == CHOOSE i \in frames : \A j \in frames : j <= i

Binding(i, candidates) ==
    LET v == IF "iter_var" \in candidates THEN "iter_var" ELSE "accu_var"
    IN  Found(iter_stack_[i][v].value, iter_stack_[i][v].attr_trail)

\* C7, as stated: an inner comprehension's variable always shadows an outer
\* variable of the same name: what GetIterVar finds is the binding of the
\* innermost frame that has a variable of that name.
CE_C7 ==
    (ret.op = "GetIterVar" /\ ret.got.found) =>
        LET frames == {i \in 1..Len(iter_stack_) : Names(i, ret.name) # {}} IN
        /\ frames # {}
        /\ \E v \in Names(Innermost(frames), ret.name) :
               ret.got = Binding(Innermost(frames), {v})

\* C7, amended: GetIterVar returns the binding of the innermost frame in which
\* a variable of that name currently holds a value (the iteration variable
\* before the accumulator variable), and not-found only when no frame has
\* such a variable; a variable without a value shadows nothing.
Thm_C7 ==
    ret.op = "GetIterVar" =>
        LET frames == {i \in 1..Len(iter_stack_) : Valued(i, ret.name) # {}} IN
        IF frames = {} THEN ret.got = NotFound
        ELSE ret.got = Binding(Innermost(frames), Valued(Innermost(frames), ret.name))

Wit_C7 ==
    /\ ret.op = "GetIterVar"
    /\ ret.name = "x"
    /\ Len(iter_stack_) = 2
    /\ Valued(1, "x") # {}
    /\ Valued(2, "x") # {}
    /\ Binding(1, Valued(1, "x")) # Binding(2, Valued(2, "x"))
    /\ ret.got.found

\* What a call of SetIterVar or SetAccuVar that wrote the variable `written`
\* and left the variable `other` alone does.
SetVarEffect(written, other) ==
    LET n == Len(iter_stack_) IN
    IF n = 0
    THEN /\ ret'.status = InvalidIterationStateError
         /\ UNCHANGED <<iter_stack_, value_stack_, pc_>>
    ELSE /\ ret'.status = OkStatus
         /\ Len(iter_stack_') = n
         /\ \A i \in 1..(n - 1) : iter_stack_'[i] = iter_stack_[i]
         /\ iter_stack_'[n][other] = iter_stack_[n][other]
         /\ iter_stack_'[n][written].name = iter_stack_[n][written].name
         /\ iter_stack_'[n][written].value = ret'.value
         /\ iter_stack_'[n][written].attr_trail = ret'.trail
         /\ UNCHANGED <<value_stack_, pc_>>

\* C8: SetIterVar and SetAccuVar change only the value and the attribute
\* trail of their variable of the top iteration frame; every other frame, the
\* other variable, both names and the operand stack stay as they were.  With
\* no active frame they return the iteration-state error and change nothing.
Thm_C8 ==
    [][/\ ret'.op = "SetIterVar" => SetVarEffect("iter_var", "accu_var")
       /\ ret'.op = "SetAccuVar" => SetVarEffect("accu_var", "iter_var")]_vars

Wit_C8 ==
    /\ ret.op = "SetAccuVar"
    /\ ret.status = OkStatus
    /\ Len(iter_stack_) = 2
    /\ iter_stack_[2].iter_var.value # None
    /\ iter_stack_[2].iter_var.value # ret.value
    /\ iter_stack_[1].accu_var.value # None
    /\ value_stack_ # <<>>

\* C9: PopIterFrame on an empty iteration stack returns the internal error
\* "Loop stack underflow." and changes nothing; otherwise it removes the
\* innermost frame and leaves the older frames in push order.  The depth of
\* the iteration stack is the number of PushIterFrame calls minus the number
\* of PopIterFrame calls that returned OK.
Thm_C9 ==
    /\ [](Len(iter_stack_) = pushes - pops)
    /\ [][ret'.op = "PopIterFrame" =>
              IF iter_stack_ = <<>>
              THEN /\ ret'.status = InternalError("Loop stack underflow.")
                   /\ UNCHANGED <<iter_stack_, value_stack_, pc_, pops>>
              ELSE /\ ret'.status = OkStatus
                   /\ iter_stack_' = SubSeq(iter_stack_, 1, Len(iter_stack_) - 1)
                   /\ pops' = pops + 1
                   /\ UNCHANGED <<value_stack_, pc_>>]_vars

Wit_C9 ==
    /\ ret.op = "PopIterFrame"
    /\ ret.status = OkStatus
    /\ pushes = 2
    /\ Len(iter_stack_) = 1
    /\ iter_stack_[1].iter_var.value # None

\* C28: a frame variable that holds no value is invisible to GetIterVar: what
\* it finds is the binding of a frame that holds a value under the name (the
\* iteration variable before the accumulator variable) such that no frame
\* further in holds a value under it, and it reports not-found exactly when
\* no frame holds a value under the name.
Thm_C28 ==
    ret.op = "GetIterVar" =>
        LET valued == {i \in 1..Len(iter_stack_) : Valued(i, ret.name) # {}} IN
        /\ ret.got.found = (valued # {})
        /\ ret.got.found =>
               \E i \in valued :
                   /\ ret.got = Binding(i, Valued(i, ret.name))
                   /\ \A j \in valued : j <= i

\* The innermost frame has a variable "x" that holds no value, the frame
\* around it holds a value under "x", and GetIterVar found that one.
Wit_C28 ==
    /\ ret.op = "GetIterVar"
    /\ ret.name = "x"
    /\ Len(iter_stack_) = 2
    /\ Names(2, "x") # {}
    /\ Valued(2, "x") = {}
    /\ Valued(1, "x") # {}
    /\ ret.got = Binding(1, Valued(1, "x"))


(***************************************************************************)
(* Properties of concurrent evaluations, checked under SpecPar.            *)
(***************************************************************************)
\* What thread t's call of Trace comes to when nothing else runs.
Alone(t) == TraceAlone(path_, thread_call[t].activation, thread_call[t].callback)

\* C11: two evaluations of the same plan that run concurrently, each with its
\* own evaluation state, do not interfere: an evaluation that has returned
\* has returned what the same call returns when it runs alone, an evaluation
\* that ended the process ends it alone too, and no step of either changes
\* the execution path that both read.
Thm_C11 ==
    /\ [](\A t \in Threads :
              /\ thread_call[t].phase = "returned" =>
                     /\ Alone(t).phase = "returned"
                     /\ thread_call[t].result = Alone(t).result
                     /\ thread_call[t].calls = Alone(t).calls
              /\ thread_call[t].phase = "aborted" => Alone(t).phase = "aborted")
    /\ [][path_' = path_]_vars

\* Both evaluations took steps while the other was inside Trace, on different
\* inputs, and both have returned, with different results.
Wit_C11 ==
    /\ \A t \in Threads :
           /\ thread_call[t].phase = "returned"
           /\ thread_call[t].executed = 2
           /\ thread_call[t].overlapped
    /\ thread_call[1].result # thread_call[2].result
    /\ thread_call[1].result.ok
    /\ ~thread_call[2].result.ok

(***************************************************************************)
(* Properties of the map builders and the maps they build, checked under   *)
(* SpecMap.                                                                *)
(***************************************************************************)
\* The last call was a Put of a key that an earlier Put had inserted.
PutOfInsertedKey ==
    /\ last.op = "Put"
    /\ \E i \in 1..Len(last.before) : last.before[i].key = last.key

\* C12: in every builder specialisation, a Put of a non-error value whose key
\* equals a key already inserted returns the duplicate-key error and leaves
\* the entries of the builder as they were.
CE_C12 ==
    (PutOfInsertedKey /\ last.value.kind # "Error") =>
        /\ last.status = DuplicateKeyError
        /\ builder.entries_ = last.before

\* C13: a Put whose key is of none of the kinds Bool, Int, Uint and String
\* returns the invalid-map-key-type error and inserts nothing, and the
\* process survives it.
CE_C13 ==
    /\ last.op # "abort"
    /\ (last.op = "Put" /\ last.key.kind \notin MapKeyKinds \cup {"Error"}) =>
           /\ last.status = InvalidMapKeyTypeError
           /\ builder.entries_ = last.before

\* The Put calls that returned OK for the key that was looked up.
PutsOfKey == {i \in 1..Len(put_log) : put_log[i].key = last.key}

\* C14: in the built map, Find and Has of a key of kind Bool, Int, Uint or
\* String report found exactly when a Put of that key had returned OK, and
\* Find then yields the value of that Put.
Thm_C14 ==
    last.op \in {"Find", "Has"} =>
        /\ last.found = (PutsOfKey # {})
        /\ (last.op = "Find" /\ last.found) =>
               \A i \in PutsOfKey : last.result = put_log[i].value

\* Find found the second of two keys that hash alike in a dynamically keyed
\* map, and returned its value.
Wit_C14 ==
    /\ last.op = "Find"
    /\ last.found
    /\ map_value.K = "Value"
    /\ Len(map_value.entries_) = 2
    /\ map_value.entries_[2] = Entry(last.key, last.result)
    /\ map_value.entries_[1].value # last.result
    /\ MapValueKeyHash("Value", map_value.entries_[1].key).hash
           = MapValueKeyHash("Value", last.key).hash

\* C15: a Put with an Error key or an Error value returns the error carried,
\* the key's when both are errors, and leaves the entries of the builder as
\* they were.
Thm_C15 ==
    (last.op = "Put" /\ (last.key.kind = "Error" \/ last.value.kind = "Error")) =>
        /\ last.status =
               NativeValue(IF last.key.kind = "Error" THEN last.key ELSE last.value)
        /\ builder.entries_ = last.before
        /\ Len(builder.entries_) = Len(last.before)

\* A Put of an Error key with an Error value on a builder that holds an entry.
Wit_C15 ==
    /\ last.op = "Put"
    /\ last.key.kind = "Error"
    /\ last.value.kind = "Error"
    /\ last.key.v # last.value.v
    /\ Len(last.before) = 1

\* C16: on dynamically typed keys of the kinds Bool, Int, Uint and String,
\* MapValueKeyEqualTo holds exactly between keys of the same kind and payload,
\* never goes through its fatal branch, and keys it holds equal have the same
\* MapValueKeyHash.
Thm_C16 ==
    (/\ last.op = "KeyFunctors"
     /\ last.lhs.kind \in MapKeyKinds
     /\ last.rhs.kind \in MapKeyKinds) =>
        /\ last.equal = (last.lhs.kind = last.rhs.kind /\ last.lhs.v = last.rhs.v)
        /\ ~last.fatal
        /\ last.equal => last.lhs_hash = last.rhs_hash

\* Two keys of different kinds with the same payload and the same hash were
\* compared.
Wit_C16 ==
    /\ last.op = "KeyFunctors"
    /\ last.lhs.kind = "Bool"
    /\ last.rhs.kind = "String"
    /\ last.lhs.v = last.rhs.v
    /\ last.lhs_hash = last.rhs_hash
    /\ ~last.equal

(***************************************************************************)
(* Properties of the equality of maps and structs, checked under SpecEq.   *)
(***************************************************************************)
\* The map reports as many entries as its iterator yields.
WellFormed(i) == objects[i].size = Len(objects[i].entries_)

KeysOf(i) == {objects[i].entries_[k].key : k \in 1..Len(objects[i].entries_)}
EntriesOf(i) == {objects[i].entries_[k] : k \in 1..Len(objects[i].entries_)}
FieldsOf(i) == {objects[i].fields[k] : k \in 1..Len(objects[i].fields)}

\* The same size, the same keys, and under every key the same value.
SameEntries(lhs, rhs) ==
    /\ objects[lhs].size = objects[rhs].size
    /\ KeysOf(lhs) = KeysOf(rhs)
    /\ \A l \in EntriesOf(lhs) : \A r \in EntriesOf(rhs) :
           l.key = r.key => l.value = r.value

CE_C18 ==
    (/\ last.op = "MapValueEqual"
     /\ last.lhs # last.rhs
     /\ Len(objects[last.lhs].entries_) < objects[last.lhs].size) =>
        /\ last.crash = "none"
        /\ last.result = BoolValue(FALSE)

\* C19: StructValueEqual is false, with no field examined, when the type
\* names differ; when they are the same it is true exactly when the two
\* structs have the same field names and equal values in every field.
Thm_C19 ==
    last.op = "StructValueEqual" =>
        /\ last.crash = "none"
        /\ objects[last.lhs].type_name # objects[last.rhs].type_name =>
               last.result = BoolValue(FALSE) /\ last.examined = 0
        /\ objects[last.lhs].type_name = objects[last.rhs].type_name =>
               last.result = BoolValue(FieldsOf(last.lhs) = FieldsOf(last.rhs))

\* Two distinct structs of the same type, with the same two fields yielded in
\* different orders, compared equal.
Wit_C19 ==
    /\ last.op = "StructValueEqual"
    /\ last.lhs # last.rhs
    /\ objects[1].type_name = objects[2].type_name
    /\ Len(objects[1].fields) = 2
    /\ objects[1].fields # objects[2].fields
    /\ last.result = BoolValue(TRUE)

\* C20: comparing a map or a struct with itself is true, and no entry or
\* field has been examined, in MapValueEqual and in StructValueEqual.
CE_C20 ==
    /\ (last.op = "MapValueEqual" /\ last.lhs = last.rhs /\ WellFormed(last.lhs)) =>
           /\ last.result = BoolValue(TRUE)
           /\ last.examined = 0
    /\ (last.op = "StructValueEqual" /\ last.lhs = last.rhs) =>
           /\ last.result = BoolValue(TRUE)
           /\ last.examined = 0

(***************************************************************************)
(* Properties of the choice of the builder, checked under SpecNew.         *)
(***************************************************************************)
\* The switch of NewMapValueBuilder made the builder.
Switched == last.op = "NewMapValueBuilder" /\ last.legacy \in {"none", "unimplemented"}

\* C26, as stated: the builder is specialised by the declared pair of key
\* kind and value kind, and it is the (Value, Value) builder whenever the key
\* type or the value type is dyn.
CE_C26 ==
    (Switched /\ last.result.ok) =>
        IF "Dyn" \in {last.key, last.value}
        THEN last.result.K = "Value" /\ last.result.V = "Value"
        ELSE last.result.K = last.key /\ last.result.V = last.value

\* C26, amended: for a key kind among bool, int, uint, string, dyn and a value
\* kind among the fourteen the switch knows, the builder is specialised on
\* each side separately: a side declared dyn is held as Value, the other side
\* keeps its own kind, and the (Value, Value) builder is chosen only when
\* both sides are dyn; any other kind gives an invalid-argument error.
Thm_C26 ==
    Switched =>
        IF last.result.ok
        THEN /\ last.result.K = ValueOf(last.key)
             /\ last.result.V = ValueOf(last.value)
             /\ (last.result.K = "Value" /\ last.result.V = "Value")
                    <=> (last.key = "Dyn" /\ last.value = "Dyn")
             /\ builder = [K |-> last.result.K, V |-> last.result.V, entries_ |-> <<>>]
        ELSE /\ last.result.status.code = "invalid_argument"
             /\ \/ last.key \in {"Bytes", "Double", "Duration", "List", "Map", "Null",
                                  "Opaque", "Timestamp", "Type", "Struct", "Error"}
                \/ last.value \in {"Struct", "Error"}

\* A map type with dyn keys and int values got the (Value, Int) builder.
Wit_C26 ==
    /\ Switched
    /\ last.key = "Dyn"
    /\ last.value = "Int"
    /\ last.result.ok
    /\ last.result.K = "Value"
    /\ last.result.V = "Int"

(***************************************************************************)
(* Properties of the builders of the well-known types, checked under       *)
(* SpecValue.                                                              *)
(***************************************************************************)
\* The call that the step makes is a set-field call.
SetCall(call) == call.op \in {"SetFieldByName", "SetFieldByNumber"}

\* The message type of the builder has no field of the name, or of the
\* number, that the call gives.
Absent(type, call) ==
    IF call.op = "SetFieldByName"
    THEN IF type \in {"Duration", "Timestamp"}
         THEN call.field \notin {"seconds", "nanos"}
         ELSE call.field # "value"
    ELSE IF type \in {"Duration", "Timestamp"}
         THEN call.field \notin {1, 2}
         ELSE call.field # 1

\* C23: a set-field call with a name or a number that the type of the builder
\* does not have returns the no-such-field error for that name or number and
\* leaves the members of the builder as they were.
Thm_C23 ==
    [][(SetCall(last') /\ Absent(builder.type, last')) =>
           /\ last'.status.code = "no_such_field"
           /\ last'.status.msg = IF last'.op = "SetFieldByName"
                                 THEN last'.field ELSE ToString(last'.field)
           /\ builder' = builder
           /\ put_log' = put_log]_vars

\* A Bool builder that holds true was given field number 2, and still holds
\* true.
Wit_C23 ==
    /\ last.op = "SetFieldByNumber"
    /\ last.field = 2
    /\ last.status.code = "no_such_field"
    /\ builder.type = "Bool"
    /\ builder.value_ = 1
    /\ Len(put_log) = 1

\* A builder of the type with zero in every member, after the first n of the
\* set-field calls that returned OK.
RECURSIVE Replayed(_, _)
Replayed(type, n) ==
    IF n = 0 THEN WellKnownValueBuilder(type, 0, 0)
    ELSE SetFieldByName(Replayed(type, n - 1), put_log[n].field, put_log[n].value).b

\* C29: a builder on which no field was set builds the zero value of its
\* type, and what Build() returns is determined by the set-field calls that
\* returned OK: it is what those calls alone make of the zero value.
CE_C29 ==
    last.op = "Build" =>
        /\ put_log = <<>> => last.result = Build(WellKnownValueBuilder(builder.type, 0, 0))
        /\ last.result = Build(Replayed(builder.type, Len(put_log)))

\* The number is one of 32 bits: signed for Int32, unsigned for UInt32.
Fits(type, v) ==
    IF type = "Int32" THEN -32768 <= v.hi /\ v.hi <= 32767
    ELSE 0 <= v.hi /\ v.hi <= 65535

\* C30: the Int32 and the UInt32 builder hold, and build, a number of 32
\* bits: a call that sets the value to an Int (a Uint) outside that range
\* returns an error and leaves the stored value as it was, one within the
\* range stores it, and a value of another kind gets the type-conversion
\* error.
Thm_C30 ==
    /\ [](builder.type \in {"Int32", "UInt32"} =>
             /\ Fits(builder.type, builder.value_)
             /\ last.op = "Build" =>
                    /\ last.result.kind = WrappedKind(builder.type)
                    /\ Fits(builder.type, last.result.v))
    /\ [][(/\ builder.type \in {"Int32", "UInt32"}
           /\ SetCall(last')
           /\ ~Absent(builder.type, last')) =>
              IF last'.value.kind # (IF builder.type = "Int32" THEN "Int" ELSE "Uint")
              THEN /\ last'.status.code = "type_conversion"
                   /\ builder' = builder
              ELSE IF ~Fits(builder.type, last'.value.v)
              THEN /\ last'.status # OkStatus
                   /\ builder' = builder
              ELSE /\ last'.status = OkStatus
                   /\ builder'.value_ = last'.value.v]_vars

\* An Int32 builder that holds 2^31 - 1 was given 2^31, returned an error and
\* still holds 2^31 - 1.
Wit_C30 ==
    /\ builder.type = "Int32"
    /\ SetCall(last)
    /\ last.value = IntValue(Int64(32768, 0))
    /\ last.status.code = "out_of_range"
    /\ builder.value_ = Int64(32767, 65535)

(***************************************************************************)
(* Properties of the traversal of an AST, checked under SpecRewrite.       *)
(***************************************************************************)
\* The calls that the tests of the comprehension expect, in their sequence
\* (InSequence), with and without use_comprehension_callbacks.
ExpectedOfComprehension(callbacks) ==
    LET Leaf(k) == OnExpr(IF k \in {0, 2, 4} THEN "PostVisitConst" ELSE "PostVisitIdent",
                          k + 2)
        Sub(k) ==
            IF callbacks
            THEN <<HandlerCall("PreVisitComprehensionSubexpression", k + 2, 1, k, <<>>),
                   Leaf(k),
                   HandlerCall("PostVisitComprehensionSubexpression", k + 2, 1, k, <<>>)>>
            ELSE <<Leaf(k), HandlerCall("PostVisitArg", 1, 0, k, <<>>)>>
    IN  <<OnExpr("PreVisitComprehension", 1)>> \o
        Sub(0) \o Sub(1) \o Sub(2) \o Sub(3) \o Sub(4) \o
        <<OnExpr("PostVisitComprehension", 1)>>

\* The calls that CheckExprRewriteHandlers expects, in their sequence.
ExpectedOfRewriteHandlers ==
    LET Update(path) == HandlerCall("TraversalStackUpdate", 0, 0, -1, path)
    IN  <<Update(<<1>>), OnExpr("PreVisitRewrite", 1),
          Update(<<1, 2>>), OnExpr("PreVisitRewrite", 2),
          Update(<<1, 2, 3>>), OnExpr("PreVisitRewrite", 3),
          OnExpr("PostVisitRewrite", 3), Update(<<1, 2>>),
          OnExpr("PostVisitRewrite", 2), Update(<<1>>),
          OnExpr("PostVisitRewrite", 1), Update(<<>>)>>

\* The calls made, of the methods named.
CallsOf(methods) == SelectSeq(handler_calls, LAMBDA e : e.cb \in methods)

\* AstRewrite returned, and the handler rewrote nothing.
Crawled == rewrite.at = "returned" /\ rewrite.rewrites = 0

\* The nodes of the sub-expression at node n, as the tree is now.
RECURSIVE Subtree(_)
Subtree(n) ==
    {n} \cup UNION {Subtree(ast[n].children[i]) : i \in 1..Len(ast[n].children)}

\* The positions of the calls that were given node n as the expression
\* visited (not as the calling expression of an argument).
About(n) ==
    {e \in 1..Len(handler_calls) :
        /\ handler_calls[e].node = n
        /\ handler_calls[e].cb \notin
               {"TraversalStackUpdate", "PostVisitArg",
                "PreVisitComprehensionSubexpression",
                "PostVisitComprehensionSubexpression"}}

\* The positions of the completion callback of sub-expression k of the
\* comprehension c.
Completions(c, k) ==
    {i \in 1..Len(handler_calls) :
        IF opts.use_comprehension_callbacks
        THEN handler_calls[i] =
                 HandlerCall("PostVisitComprehensionSubexpression",
                             ast[c].children[k + 1], c, k, <<>>)
        ELSE handler_calls[i] = HandlerCall("PostVisitArg", c, 0, k, <<>>)}

\* C24: after PreVisitComprehension of a comprehension its five
\* sub-expressions are visited in the order iteration range, accumulator
\* init, loop condition, loop step, result: no call for a node of a
\* sub-expression comes before the completion callback of the sub-expression
\* before it, the completion callback of a sub-expression
\* (PostVisitComprehensionSubexpression with use_comprehension_callbacks,
\* PostVisitArg without) comes once, when every node of the sub-expression
\* has had all its calls, and PostVisitComprehension comes after all five.
\* For the tree of the tests the calls are the ones the tests expect.
Thm_C24 ==
    /\ \A c \in DOMAIN ast : ast[c].kind = "comprehension" =>
           \A p \in {i \in About(c) : handler_calls[i].cb = "PreVisitComprehension"} :
               /\ \A k \in 0..4 :
                      LET start == IF k = 0 THEN {p} ELSE Completions(c, k - 1)
                          sub == Subtree(ast[c].children[k + 1])
                      IN  /\ Cardinality(Completions(c, k)) <= 1
                          /\ \A n \in sub : \A e \in About(n) : \E b \in start : b < e
                          /\ \A i \in Completions(c, k) : \A n \in sub :
                                 /\ \E e \in About(n) : handler_calls[e].cb = "PostVisitExpr"
                                 /\ \A e \in About(n) : e < i
               /\ \A q \in {i \in About(c) : handler_calls[i].cb = "PostVisitComprehension"} :
                      \A k \in 0..4 : \E i \in Completions(c, k) : p < i /\ i < q
    /\ (Crawled /\ ast = ComprehensionOfTest) =>
           CallsOf({"PreVisitComprehension", "PostVisitComprehension",
                    "PreVisitComprehensionSubexpression",
                    "PostVisitComprehensionSubexpression",
                    "PostVisitConst", "PostVisitIdent", "PostVisitArg"})
               = ExpectedOfComprehension(opts.use_comprehension_callbacks)

\* The traversal of the comprehension whose sub-expressions are a select, a
\* call and another comprehension returned, with comprehension callbacks; the
\* loop step, the inner comprehension, was completed before the result.
Wit_C24 ==
    /\ Crawled
    /\ Len(ast) = 14
    /\ opts.use_comprehension_callbacks
    /\ Completions(5, 4) # {}
    /\ \E i \in Completions(1, 3) : \E e \in About(6) : i < e

\* The path that the last TraversalStackUpdate before position i reported.
Reported(i) ==
    LET before == {j \in 1..(i - 1) : handler_calls[j].cb = "TraversalStackUpdate"}
    IN  IF before = {} THEN <<>>
        ELSE handler_calls[CHOOSE j \in before : \A h \in before : h <= j].path

\* C25: the path that TraversalStackUpdate reports is the chain of the nodes
\* from the root to the node being visited: it is reported, with the node
\* appended to the path reported before, right before the node's
\* PreVisitRewrite, and with the node (then its last element) removed right
\* after the node's PostVisitRewrite, and at no other time; when AstRewrite
\* returns the last report is the empty path.  For the tree of the test the
\* calls are the ones the test expects, and AstRewrite returns false.
Thm_C25 ==
    /\ Reported(Len(handler_calls) + 1) = traversal_path
    /\ \A i \in 1..Len(traversal_path) :
           IF i = 1 THEN traversal_path[i] = 1
           ELSE \E k \in 1..Len(ast[traversal_path[i - 1]].children) :
                    traversal_path[i] = ast[traversal_path[i - 1]].children[k]
    /\ \A i \in 1..Len(handler_calls) :
           LET e == handler_calls[i] IN
           /\ e.cb = "PreVisitRewrite" =>
                  /\ i > 1
                  /\ handler_calls[i - 1].cb = "TraversalStackUpdate"
                  /\ handler_calls[i - 1].path = Append(Reported(i - 1), e.node)
           /\ e.cb = "PostVisitRewrite" =>
                  /\ i < Len(handler_calls)
                  /\ handler_calls[i + 1].cb = "TraversalStackUpdate"
                  /\ Append(handler_calls[i + 1].path, e.node) = Reported(i)
           /\ e.cb = "TraversalStackUpdate" =>
                  \/ i < Len(handler_calls) /\ handler_calls[i + 1].cb = "PreVisitRewrite"
                  \/ i > 1 /\ handler_calls[i - 1].cb = "PostVisitRewrite"
    /\ rewrite.at = "returned" =>
           /\ handler_calls # <<>>
           /\ handler_calls[Len(handler_calls)] =
                  HandlerCall("TraversalStackUpdate", 0, 0, -1, <<>>)
    /\ (Crawled /\ ast = SelectOfTest) =>
           /\ CallsOf({"TraversalStackUpdate", "PreVisitRewrite", "PostVisitRewrite"})
                  = ExpectedOfRewriteHandlers
           /\ ~rewrite.rewritten

\* The innermost node of a comprehension under a select is being left: the
\* path of three nodes has been reported before its PreVisitRewrite and the
\* path of two after its PostVisitRewrite.
Wit_C25 ==
    /\ Len(ast) = 7
    /\ rewrite.at = "loop"
    /\ traversal_path = <<1, 2>>
    /\ Len(handler_calls) > 2
    /\ handler_calls[Len(handler_calls) - 1] = OnExpr("PostVisitRewrite", 3)
    /\ \E i \in 1..Len(handler_calls) :
           handler_calls[i] = HandlerCall("TraversalStackUpdate", 0, 0, -1, <<1, 2, 3>>)

(***************************************************************************)
(* Properties of the iteration over a map, checked under SpecIter.         *)
(***************************************************************************)
\* The positions of the entries for which the callback of the last ForEach
\* does not return true.
Stops ==
    {i \in 1..Len(map_value.entries_) :
        last.callback[map_value.entries_[i]] # StatusOrValue(TRUE)}

\* C21: ForEach invokes the callback with the entries of the map in their
\* order, each at most once, up to and including the first entry for which
\* the callback does not return true: when it returned false there ForEach
\* returns OK, when it returned an error ForEach returns that error, and when
\* it returned true for every entry each entry was visited exactly once and
\* ForEach returns OK.
Thm_C21 ==
    last.op = "ForEach" =>
        IF Stops = {}
        THEN /\ last.invoked = map_value.entries_
             /\ last.status = OkStatus
        ELSE LET first == CHOOSE i \in Stops : \A j \in Stops : i <= j
                 answer == last.callback[map_value.entries_[first]]
             IN  /\ last.invoked = SubSeq(map_value.entries_, 1, first)
                 /\ last.status = IF answer.ok THEN OkStatus ELSE answer.status

\* The callback returned false for the first of two entries and would have
\* returned an error for the second: only the first was visited, and ForEach
\* returned OK.
Wit_C21 ==
    /\ last.op = "ForEach"
    /\ Len(map_value.entries_) = 2
    /\ last.callback[map_value.entries_[1]] = StatusOrValue(FALSE)
    /\ last.callback[map_value.entries_[2]] = StatusOrError(CallbackError)
    /\ Len(last.invoked) = 1
    /\ last.status = OkStatus

\* The keys of the first n entries of the map.
KeysUpTo(n) == [i \in 1..n |-> map_value.entries_[i].key]

\* C22: the successful Next calls of a key iterator yield the keys of the
\* entries in order, each entry once; HasNext is true exactly while fewer
\* than Size() keys have been yielded; a Next call after that fails with the
\* failed-precondition error and yields no key; and no call takes the
\* iterator back: what has been yielded stays yielded.
Thm_C22 ==
    /\ [](key_iterator # None =>
             /\ Len(yielded) <= Len(map_value.entries_)
             /\ yielded = KeysUpTo(Len(yielded))
             /\ HasNext(key_iterator) = (Len(yielded) < Len(map_value.entries_))
             /\ last.op = "HasNext" => last.result = HasNext(key_iterator)
             /\ (last.op = "Next" /\ last.status = OkStatus) =>
                    last.result = yielded[Len(yielded)]
             /\ (last.op = "Next" /\ last.status # OkStatus) =>
                    /\ last.status.code = "failed_precondition"
                    /\ last.result = None
                    /\ Len(yielded) = Len(map_value.entries_))
    /\ [][key_iterator # None =>
              /\ key_iterator' # None
              /\ Len(yielded') >= Len(yielded)
              /\ SubSeq(yielded', 1, Len(yielded)) = yielded
              /\ (last'.op = "Next" /\ ~HasNext(key_iterator)) =>
                     /\ last'.status # OkStatus
                     /\ UNCHANGED iterVars]_vars

\* Both keys of a map of two entries have been yielded, and the Next call
\* after them failed.
Wit_C22 ==
    /\ key_iterator # None
    /\ Len(map_value.entries_) = 2
    /\ Len(yielded) = 2
    /\ last.op = "Next"
    /\ last.status # OkStatus

(***************************************************************************)
(* The same comparisons with values whose comparison is not a Bool,        *)
(* checked under SpecEqNested.                                             *)
(***************************************************************************)
\* The entries of a map, or the fields of a struct, with the key or the name
\* as their slot.
ItemsOf(i) ==
    IF "entries_" \in DOMAIN objects[i]
    THEN {[slot |-> e.key, value |-> e.value] : e \in EntriesOf(i)}
    ELSE {[slot |-> f.name, value |-> f.value] : f \in FieldsOf(i)}

\* C27: MapValueEqual and StructValueEqual yield true only if every
\* comparison of the two values under a key or a field name produced the
\* Bool value true: when one of them produced a value that is not a Bool, the
\* result is not true.
CE_C27 ==
    (/\ last.op \in {"MapValueEqual", "StructValueEqual"}
     /\ last.examined > 0
     /\ last.result = BoolValue(TRUE)) =>
        \A l \in ItemsOf(last.lhs) : \A r \in ItemsOf(last.rhs) :
            l.slot = r.slot => ValueEqual(l.value, r.value) = BoolValue(TRUE)


====
